---- MODULE Spec2Model ----
(***************************************************************************)
(* Verification model of the analysis-result pipeline of                   *)
(* agentic-codereview: the artifact store (tools/save_analysis_artifact.py,*)
(* tools/artifact_loader_tool.py), the hybrid YAML+markdown codec          *)
(* (util/markdown_yaml_parser.py), the security after-tool callback        *)
(* (sub_agents/security_agent/agent.py, util/security_enrichment.py,       *)
(* util/callbacks.py) and the regex content filters.                       *)
(*                                                                         *)
(* Each component has its own variables, initial condition, next-state     *)
(* relation and specification, named after it (SpecStore, SpecCodec, ...); *)
(* a component's specification holds the other components' variables at    *)
(* their idle values.                                                      *)
(*                                                                         *)
(* Text is modelled as a sequence of tokens.  A token is one character     *)
(* that the code inspects (a backtick, a newline, a space) or an           *)
(* indivisible chunk of other characters.                                  *)
(***************************************************************************)
EXTENDS Integers, Sequences, FiniteSets, TLC

VARIABLES
    \* ---- artifact store (save_analysis_result / load_analysis_results) ----
    state,       \* tool_context.state of each session: session -> (key -> text)
    adk,         \* ADK artifact service: session -> (filename -> [text, version])
    disk,        \* storage_bucket/artifacts: session dir -> (filename -> text)
    saveResult,  \* dict returned by the last save_analysis_result call
    loadResult,  \* dict returned by a load made since the last save call
    lastSave,    \* arguments (and injected fault) of the last save call
    lastOp,      \* which store operation ran last
    nSaves,      \* number of save calls made so far
    \* ---- hybrid document codec (parse_analysis / reconstruct_analysis) ----
    rawText,     \* the raw text handed to parse_analysis
    pc,          \* how far the codec run has got
    parsed,      \* outcome of parse_analysis(text)
    rebuilt,     \* reconstruct_analysis(metadata, body) of that outcome
    reparsed,    \* outcome of parse_analysis(rebuilt)
    \* ---- security after-tool callback (security_agent_after_tool) ----
    toolName,     \* name of the tool whose response the callback is given
    received,     \* the tool_response as the scanner produced it
    toolResponse, \* the tool_response dict, which the callback changes in place
    secConfig,    \* false-positive patterns and security_guidelines in force
    secReturn,    \* what the callback returned: None or the tool_response
    secTrace,     \* the callback's intermediate lists and its timer's counts
    \* ---- regex content filters (filter_content / filter_bias / re.sub loop) ----
    filterVia,    \* the function that applies the rules
    ruleSetName,  \* which rule set the rules come from
    filterRules,  \* the (pattern, replacement) rules handed to it
    filterInput,  \* the text to filter
    filterPc,     \* how many passes have run
    firstPass,    \* result of filtering filterInput
    secondPass,   \* result of filtering the text of firstPass again
    \* ---- schema validation (validate_analysis) ----
    vMetadata,    \* the caller's metadata dict before the call
    vBody,        \* the markdown body handed to the call
    vAgentName,   \* the expected agent name, or None
    vCoerce,      \* the coerce_types argument
    vPc,          \* whether the call has been made
    vResult,      \* the caller's dict after the call, and the errors returned
    \* ---- after-agent guardrail callbacks (security, carbon, code quality) ----
    gProducer,    \* the agent whose after-agent callback runs
    gBefore,      \* callback_context.state before the callback: key -> text
    gState,       \* callback_context.state
    gBiasConfig,  \* whether bias_prevention.yaml was loaded
    gLookup,      \* what the NVD lookup of a CVE id meets
    gPc,          \* whether the callback has run
    gTrace,       \* where the callback got to, the body it filtered, its counts
    \* ---- confidence and severity (compute_confidence, adjust_severity_by_confidence) ----
    eFinding,     \* the finding handed to compute_confidence
    eSeverity,    \* the severity handed to adjust_severity_by_confidence
    eConfidence,  \* the confidence handed to it, in hundredths
    ePc,          \* which of the two functions have been applied
    eComputed,    \* compute_confidence(eFinding), in hundredths
    eAdjusted,    \* adjust_severity_by_confidence(eSeverity, eConfidence)
    \* ---- report synthesis (report_synthesizer_agent and its callbacks) ----
    rState,       \* callback_context.state: the four documents of the session
    rReport,      \* state["final_report"], the agent's answer
    rPc,          \* how far the agent's run has got
    rTrace,       \* what the callbacks found and recorded
    \* ---- review pipeline of concurrent sessions (SequentialAgent, MetricsCollector) ----
    pStage,       \* session -> index of the next stage of its pipeline
    pState,       \* session -> the keys its session state holds
    pArtifacts,   \* the analysis files under storage_bucket/artifacts
    pReports,     \* the report files under storage_bucket/artifacts/reports
    pEvents,      \* session -> its stage starts and writes, in order
    pMetrics,     \* _metrics_collector.callback_metrics: key -> execution_count
    pAccess,      \* which session has read or written which mutable object
    \* ---- batch save of a session's documents (save_all_analysis_artifacts) ----
    bBefore,      \* tool_context.state before the call: key -> text
    bState,       \* tool_context.state
    bFaults,      \* producer -> the write of its save that raises, if any
    bPc,          \* whether the call has been made
    bArtifacts,   \* the producers whose ADK artifact the call wrote
    bFiles,       \* the producers whose file the call wrote
    bReturn       \* what the call returned

storeVars == <<state, adk, disk, saveResult, loadResult, lastSave, lastOp, nSaves>>

codecVars == <<rawText, pc, parsed, rebuilt, reparsed>>

secVars == <<toolName, received, toolResponse, secConfig, secReturn, secTrace>>

filterVars == <<filterVia, ruleSetName, filterRules, filterInput, filterPc, firstPass, secondPass>>

validVars == <<vMetadata, vBody, vAgentName, vCoerce, vPc, vResult>>

guardVars == <<gProducer, gBefore, gState, gBiasConfig, gLookup, gPc, gTrace>>

enrichVars == <<eFinding, eSeverity, eConfidence, ePc, eComputed, eAdjusted>>

reportVars == <<rState, rReport, rPc, rTrace>>

pipelineVars == <<pStage, pState, pArtifacts, pReports, pEvents, pMetrics, pAccess>>

batchVars == <<bBefore, bState, bFaults, bPc, bArtifacts, bFiles, bReturn>>

vars == <<storeVars, codecVars, secVars, filterVars, validVars, guardVars, enrichVars, reportVars, pipelineVars, batchVars>>

(***************************************************************************)
(* Generic helpers on finite functions (Python dicts, directories).        *)
(***************************************************************************)
EmptyMap == [x \in {} |-> 0]

Put(f, k, v) == [x \in (DOMAIN f) \cup {k} |-> IF x = k THEN v ELSE f[x]]

Last(s) == s[Len(s)]

Front(s) == SubSeq(s, 1, Len(s) - 1)

(***************************************************************************)
(* Text helpers: str.strip(), str.split('\n'), '\n'.join(...).             *)
(***************************************************************************)
NL == "<newline>"

BT == "<backtick>"

SP == "<space>"

SQ == "<quote>"

IsWs(t) == t \in {NL, SP}

RECURSIVE LStrip(_)
LStrip(s) == IF s = <<>> THEN s
             ELSE IF IsWs(Head(s)) THEN LStrip(Tail(s)) ELSE s

RECURSIVE RStrip(_)
RStrip(s) == IF s = <<>> THEN s
             ELSE IF IsWs(Last(s)) THEN RStrip(Front(s)) ELSE s

Strip(s) == RStrip(LStrip(s))

RECURSIVE SplitLines(_)
SplitLines(s) ==
    IF \A i \in 1..Len(s) : s[i] # NL THEN <<s>>
    ELSE LET i == CHOOSE j \in 1..Len(s) :
                      s[j] = NL /\ \A k \in 1..(j - 1) : s[k] # NL
         IN  <<SubSeq(s, 1, i - 1)>> \o SplitLines(SubSeq(s, i + 1, Len(s)))

RECURSIVE JoinLines(_)
JoinLines(ls) ==
    IF ls = <<>> THEN <<>>
    ELSE IF Len(ls) = 1 THEN ls[1]
    ELSE ls[1] \o <<NL>> \o JoinLines(Tail(ls))

StartsWith(s, p) == Len(s) >= Len(p) /\ SubSeq(s, 1, Len(p)) = p

Fence == <<BT, BT, BT>>

FenceJson == <<BT, BT, BT, "json">>

(***************************************************************************)
(* save_analysis_result, lines 45-64: strip an enclosing code fence.       *)
(***************************************************************************)
Unfence(a) ==
    LET lines == SplitLines(a)
        l1 == IF StartsWith(lines[1], Fence) THEN Tail(lines) ELSE lines
        l2 == IF l1 # <<>> /\ Strip(Last(l1)) = Fence THEN Front(l1) ELSE l1
    IN  Strip(JoinLines(l2))

StripFences(d) ==
    LET a == Strip(d)
    IN  IF StartsWith(a, FenceJson) THEN Unfence(a)
        ELSE IF StartsWith(a, Fence) THEN Unfence(a)
        ELSE a

(***************************************************************************)
(* save_analysis_result, lines 66-74: the backtick substitution re.sub.    *)
(* Leftmost, non-overlapping: a backtick followed by at least one          *)
(* non-backtick token and then a backtick becomes a pair of single quotes. *)
(***************************************************************************)
NextBacktick(s, i) ==
    IF \E j \in (i + 1)..Len(s) : s[j] = BT
    THEN CHOOSE j \in (i + 1)..Len(s) :
             s[j] = BT /\ \A k \in (i + 1)..(j - 1) : s[k] # BT
    ELSE 0

RECURSIVE SanitizeFrom(_, _)
SanitizeFrom(s, i) ==
    IF i > Len(s) THEN <<>>
    ELSE LET j == NextBacktick(s, i)
         IN  IF s[i] = BT /\ j > i + 1
             THEN <<SQ>> \o SubSeq(s, i + 1, j - 1) \o <<SQ>>
                      \o SanitizeFrom(s, j + 1)
             ELSE <<s[i]>> \o SanitizeFrom(s, i + 1)

SanitizeBackticks(s) == SanitizeFrom(s, 1)

(***************************************************************************)
(* JSON handling of save_analysis_result, lines 114-186.  The token "J" is *)
(* a compact JSON object, "Jp" the same object as json.dumps(indent=2)     *)
(* prints it; "Jc"/"Jcp" likewise for an object that holds a non-numeric   *)
(* confidence_score, on which the score statistics (line 153) raise.       *)
(***************************************************************************)
JsonLoads(t) ==
    IF t \in {<<"J">>, <<"Jp">>} THEN "J"
    ELSE IF t \in {<<"Jc">>, <<"Jcp">>} THEN "Jc"
    ELSE "JSONDecodeError"

JsonDumpsIndent2(obj) == IF obj = "J" THEN <<"Jp">> ELSE <<"Jcp">>

ConfidenceStatsRaise(obj) == obj = "Jc"

DiskText(t) ==
    IF JsonLoads(t) = "JSONDecodeError" THEN t
    ELSE JsonDumpsIndent2(JsonLoads(t))

(***************************************************************************)
(* Names: the state key (lines 85-93), the artifact file name (line 81)    *)
(* and the loader's glob (artifact_loader_tool.py line 73).  A file name   *)
(* is [agent, ext]: the name <agent>_analysis<ext>.                        *)
(***************************************************************************)
StateKey(agent_name) ==
    IF agent_name = "security_agent" THEN "security_analysis"
    ELSE IF agent_name = "code_quality_agent" THEN "code_quality_analysis"
    ELSE IF agent_name = "engineering_practices_agent"
         THEN "engineering_practices_analysis"
    ELSE IF agent_name = "carbon_emission_agent" THEN "carbon_emission_analysis"
    ELSE agent_name \o "_analysis"

\* one file name for every producer
SharedFilename(agent_name) == [agent |-> "analysis", ext |-> ".json"]

ArtifactFilename(agent_name) == [agent |-> agent_name, ext |-> ".json"]

LoaderGlobMatches(fname) == fname.ext = ".md"

AgentNameOfFile(fname) == fname.agent

(***************************************************************************)
(* Inputs of the store model.                                              *)
(***************************************************************************)
Sessions == {"sess-1", "sess-2"}

Agents == {"security_agent", "carbon_emission_agent"}

Docs == {
    <<"T">>,                                          \* plain text
    <<BT, BT, BT, "json", NL, "J", NL, BT, BT, BT>>,  \* ```json fenced JSON
    <<NL, BT, BT, BT, NL, "T", NL, BT, BT, BT, NL>>,  \* generic fence, whitespace
    <<"T", SP, BT, "T", BT>>,                         \* inline code span
    <<"Jc">>                                          \* JSON, textual confidence_score
}

\* Which write of the call raises: none, tool_context.save_artifact (line 100),
\* mkdir (line 110) or write_text (lines 117/185).
Faults == {"none", "adk", "mkdir", "write"}

MaxSaves == 2

NoResult == [status |-> "none"]

(***************************************************************************)
(* save_analysis_result(analysis_data, agent_name, tool_context)           *)
(***************************************************************************)
Persisted(d) == SanitizeBackticks(StripFences(d))

SaveSuccessResult(s, p, version) ==
    [status |-> "success",
     filename |-> ArtifactFilename(p),
     version |-> version,
     agent |-> p,
     session_id |-> s,
     state_key |-> StateKey(p)]

SaveErrorResult == [status |-> "error", report |-> "Failed to save analysis"]

NextVersion(s, fname) ==
    IF fname \in DOMAIN adk[s] THEN adk[s][fname].version + 1 ELSE 0

Save(s, p, d, fault) ==
    LET text == Persisted(d)
        fname == ArtifactFilename(p)
        version == NextVersion(s, fname)
        dirMade == IF s \in DOMAIN disk THEN disk ELSE Put(disk, s, EmptyMap)
        written == Put(dirMade, s, Put(dirMade[s], fname, DiskText(text)))
        raisesAfterWrite == JsonLoads(text) # "JSONDecodeError"
                               /\ ConfidenceStatsRaise(JsonLoads(text))
    IN  /\ nSaves < MaxSaves
        /\ nSaves' = nSaves + 1
        /\ lastSave' = [session |-> s, agent |-> p, doc |-> d, fault |-> fault]
        /\ lastOp' = "save"
        \* STEP 1: session state (line 95) is written before anything can fail
        /\ state' = [state EXCEPT ![s] = Put(state[s], StateKey(p), text)]
        \* STEP 2: ADK artifact (lines 99-103)
        /\ adk' = IF fault = "adk" THEN adk
                  ELSE [adk EXCEPT ![s] =
                           Put(adk[s], fname, [text |-> text, version |-> version])]
        \* STEP 3: disk (lines 108-186), reached only when step 2 did not raise
        /\ disk' = IF fault = "adk" \/ fault = "mkdir" THEN disk
                   ELSE IF fault = "write" THEN dirMade
                   ELSE written
        /\ saveResult' = IF fault = "none" /\ ~raisesAfterWrite
                         THEN SaveSuccessResult(s, p, version)
                         ELSE SaveErrorResult
        /\ loadResult' = NoResult

(***************************************************************************)
(* load_analysis_results_from_artifacts(tool_context)                      *)
(***************************************************************************)
AnalysisFiles(s) == {f \in DOMAIN disk[s] : LoaderGlobMatches(f)}

LoadResults(s) ==
    IF s \notin DOMAIN disk
    THEN [session_id |-> s, results |-> EmptyMap, total_agents |-> 0,
          message |-> "No analysis results found"]
    ELSE IF AnalysisFiles(s) = {}
    THEN [session_id |-> s, results |-> EmptyMap, total_agents |-> 0,
          message |-> "No analysis artifacts found in session directory"]
    ELSE LET names == {AgentNameOfFile(f) : f \in AnalysisFiles(s)}
             fileOf(a) == CHOOSE f \in AnalysisFiles(s) : AgentNameOfFile(f) = a
         IN  [session_id |-> s,
              results |-> [a \in names |-> disk[s][fileOf(a)]],
              total_agents |-> Cardinality(names),
              message |-> "Successfully loaded"]

Load(s) ==
    /\ loadResult' = LoadResults(s)
    /\ lastOp' = "load"
    /\ UNCHANGED <<state, adk, disk, saveResult, lastSave, nSaves>>

InitStore ==
    /\ state = [s \in Sessions |-> EmptyMap]
    /\ adk = [s \in Sessions |-> EmptyMap]
    /\ disk = EmptyMap
    /\ saveResult = NoResult
    /\ loadResult = NoResult
    /\ lastSave = NoResult
    /\ lastOp = "none"
    /\ nSaves = 0

SaveStep == \E s \in Sessions, p \in Agents, d \in Docs, fault \in Faults :
                Save(s, p, d, fault)

LoadStep == \E s \in Sessions : Load(s)


(***************************************************************************)
(* Hybrid document codec, util/markdown_yaml_parser.py.                    *)
(*                                                                         *)
(* A text is the non-empty sequence of its lines, as str.split('\n')       *)
(* gives them: a text that ends in a newline has an empty last line.  A    *)
(* line is [key, txt]: key is the mapping key of a line of the form        *)
(* key: txt, and is empty for any other line.  Lines carry no leading or   *)
(* trailing blanks of their own, and texts carry no byte order mark.       *)
(***************************************************************************)
Ln(key, txt) == [key |-> key, txt |-> txt]

Blank == Ln("", "")

Delim == Ln("", "---")

NoneText == <<>>

IsBlank(l) == l = Blank

RECURSIVE LStripLines(_)
LStripLines(ls) == IF ls = <<>> THEN ls
                   ELSE IF IsBlank(Head(ls)) THEN LStripLines(Tail(ls)) ELSE ls

RECURSIVE RStripLines(_)
RStripLines(ls) == IF ls = <<>> THEN ls
                   ELSE IF IsBlank(Last(ls)) THEN RStripLines(Front(ls)) ELSE ls

\* a text taken as it is, for comparison with StripText
KeepText(ls) == ls

\* str.strip() of a text: the empty string is the text <<Blank>>
StripText(ls) ==
    LET s == RStripLines(LStripLines(ls))
    IN  IF s = <<>> THEN <<Blank>> ELSE s

(***************************************************************************)
(* _FRONTMATTER_RE (lines 45-51) on a text raw.  The opening delimiter is  *)
(* the first non-blank line; it takes j following blank lines with it      *)
(* (\s* is greedy, so the largest j that lets the rest match); the YAML    *)
(* group is non-greedy, so the closing delimiter is the first --- line     *)
(* that leaves at least one line to the YAML group and has a newline       *)
(* after it.                                                               *)
(***************************************************************************)
FirstNonBlank(raw) ==
    IF \A i \in 1..Len(raw) : IsBlank(raw[i]) THEN 0
    ELSE CHOOSE i \in 1..Len(raw) :
             ~IsBlank(raw[i]) /\ \A k \in 1..(i - 1) : IsBlank(raw[k])

OpenSkips(raw, p) ==
    {j \in 0..(Len(raw) - p - 1) : \A k \in (p + 1)..(p + j) : IsBlank(raw[k])}

CloseLines(raw, p, j) ==
    {c \in (p + j + 2)..(Len(raw) - 1) : raw[c] = Delim}

Max(S) == CHOOSE x \in S : \A y \in S : y <= x

Min(S) == CHOOSE x \in S : \A y \in S : x <= y

FrontmatterMatch(raw) ==
    LET p == FirstNonBlank(raw)
        js == IF p = 0 \/ raw[p] # Delim THEN {}
              ELSE {j \in OpenSkips(raw, p) : CloseLines(raw, p, j) # {}}
    IN  IF js = {} THEN [matched |-> FALSE, yaml |-> <<>>, body |-> <<>>]
        ELSE LET j == Max(js)
                 c == Min(CloseLines(raw, p, j))
             IN  [matched |-> TRUE,
                  yaml |-> SubSeq(raw, p + j + 1, c - 1),
                  body |-> SubSeq(raw, c + 1, Len(raw))]

(***************************************************************************)
(* YAML values.  A value is [ty, s, lines]; lines is used only by the raw  *)
(* front matter block that a parse error carries.                          *)
(***************************************************************************)
Val(ty, s) == [ty |-> ty, s |-> s, lines |-> <<>>]

StrV(s) == Val("str", s)

IntV(s) == Val("int", s)

FloatV(s) == Val("float", s)

BoolV(s) == Val("bool", s)

Null == Val("null", "")

EmptyList == Val("list", "")

EmptyDict == Val("dict", "")

RaisesYAMLError == Val("YAMLError", "")

RaisesValueError == Val("ValueError", "")

(***************************************************************************)
(* yaml.safe_load of one scalar or flow token (the implicit resolvers of   *)
(* PyYAML's SafeLoader) and yaml.safe_dump of one value (its representer   *)
(* quotes a string that would not load back as that string).  An unclosed  *)
(* flow sequence is a scanner error, a yaml.YAMLError; a token of the      *)
(* timestamp form that names no calendar day makes the constructor raise   *)
(* ValueError, which is not a yaml.YAMLError.                              *)
(***************************************************************************)
Resolve(txt) ==
    CASE txt = "" -> Null
      [] txt = "null" -> Null
      [] txt = "3" -> IntV("3")
      [] txt = "0" -> IntV("0")
      [] txt = "0.5" -> FloatV("0.5")
      [] txt = "1.5" -> FloatV("1.5")
      [] txt = "'3'" -> StrV("3")
      [] txt = "'x'" -> StrV("x")
      [] txt = "''" -> StrV("")
      [] txt = "[]" -> EmptyList
      [] txt = "{}" -> EmptyDict
      [] txt = "[unclosed" -> RaisesYAMLError
      [] txt = "2023-02-30" -> RaisesValueError
      [] OTHER -> StrV(txt)

Quote(s) == "'" \o s \o "'"

\* a representer that writes every string plain, for comparison with Represent
RepresentPlain(v) ==
    CASE v.ty = "null" -> "null"
      [] v.ty = "list" -> "[]"
      [] v.ty = "dict" -> "{}"
      [] OTHER -> v.s

Represent(v) ==
    CASE v.ty = "null" -> "null"
      [] v.ty = "int" -> v.s
      [] v.ty = "float" -> v.s
      [] v.ty = "list" -> "[]"
      [] v.ty = "dict" -> "{}"
      [] OTHER -> IF Resolve(v.s) = StrV(v.s) THEN v.s ELSE Quote(v.s)

\* Python truthiness, for "yaml.safe_load(yaml_block) or {}" (line 83)
Falsy(v) == \/ v.ty \in {"null", "list", "dict"}
            \/ v = IntV("0")
            \/ v = StrV("")

(***************************************************************************)
(* yaml.safe_load of a block of lines.  The result is                      *)
(* [kind, entries]: kind "dict" with the ordered entries, or the kind of   *)
(* the non-mapping value, or the exception raised.                         *)
(***************************************************************************)
IsComment(l) == l.key = "" /\ l.txt = "# Title"

RECURSIVE Content(_)
Content(ls) ==
    IF ls = <<>> THEN <<>>
    ELSE IF IsBlank(Head(ls)) \/ IsComment(Head(ls)) THEN Content(Tail(ls))
    ELSE <<Head(ls)>> \o Content(Tail(ls))

Entry(k, v) == [k |-> k, v |-> v]

\* dict construction: a repeated key keeps its first position, takes the last value
SetItem(d, k, v) ==
    IF \E i \in 1..Len(d) : d[i].k = k
    THEN [i \in 1..Len(d) |-> IF d[i].k = k THEN Entry(k, v) ELSE d[i]]
    ELSE Append(d, Entry(k, v))

RECURSIVE BuildDict(_, _)
BuildDict(d, ls) ==
    IF ls = <<>> THEN d
    ELSE BuildDict(SetItem(d, Head(ls).key, Resolve(Head(ls).txt)), Tail(ls))

Loaded(kind, entries) == [kind |-> kind, entries |-> entries]

YamlSafeLoad(block) ==
    LET all == Content(block)
        \* a leading --- is a document start marker
        c == IF all # <<>> /\ Head(all) = Delim THEN Tail(all) ELSE all
        n == Len(c)
        res(i) == Resolve(c[i].txt)
    IN  IF n = 0 THEN Loaded("null", <<>>)
        ELSE IF \E i \in 1..n : res(i) = RaisesYAMLError \/ c[i] = Delim
             THEN Loaded("YAMLError", <<>>)
        ELSE IF \A i \in 1..n : c[i].key # ""
             THEN IF \E i \in 1..n : res(i) = RaisesValueError
                  THEN Loaded("ValueError", <<>>)
                  ELSE Loaded("dict", BuildDict(<<>>, c))
        ELSE IF \E i \in 1..n : c[i].key # ""
             THEN Loaded("YAMLError", <<>>)       \* mapping entry inside a scalar
        ELSE IF n = 1
             THEN CASE res(1) = RaisesValueError -> Loaded("ValueError", <<>>)
                    [] res(1).ty = "dict" -> Loaded("dict", <<>>)
                    [] res(1).ty = "list" -> Loaded("list", <<>>)
                    [] Falsy(res(1)) -> Loaded("falsy_scalar", <<>>)
                    [] OTHER -> Loaded("scalar", <<>>)
        ELSE IF res(1).ty \in {"list", "dict"}
             THEN Loaded("YAMLError", <<>>)       \* text after a flow collection
        ELSE Loaded("scalar", <<>>)               \* multi-line plain scalar

LoadedFalsy(r) ==
    \/ r.kind \in {"null", "falsy_scalar", "list"}
    \/ r.kind = "dict" /\ r.entries = <<>>

(***************************************************************************)
(* parse_analysis(text), lines 54-95.  The outcome is                      *)
(* [raised, metadata, body]; metadata is the ordered sequence of entries.  *)
(***************************************************************************)
Outcome(raised, metadata, body) ==
    [raised |-> raised, metadata |-> metadata, body |-> body]

Tagged(tag, value) == <<Entry("agent", StrV("unknown")), Entry(tag, value)>>

RawFrontmatter(block) == [ty |-> "text", s |-> "", lines |-> block]

ParseErrorMessage == StrV("<str(e) of the yaml.YAMLError>")

ParseAnalysis(t) ==
    IF t = NoneText
    THEN Outcome(FALSE, Tagged("parse_warning", StrV("none_text")), <<Blank>>)
    ELSE
    LET raw == t
        m == FrontmatterMatch(raw)
        yaml_block == m.yaml
        body == StripText(m.body)
        loaded == YamlSafeLoad(yaml_block)
    IN  IF ~m.matched
        THEN Outcome(FALSE, Tagged("parse_warning", StrV("no_frontmatter")),
                     StripText(raw))
        ELSE IF loaded.kind = "YAMLError"
        THEN Outcome(FALSE,
                     Tagged("parse_error", ParseErrorMessage)
                         \o <<Entry("raw_frontmatter", RawFrontmatter(yaml_block))>>,
                     IF body # <<Blank>> THEN body ELSE StripText(raw))
        ELSE IF loaded.kind = "ValueError"
        THEN Outcome(TRUE, <<>>, <<>>)            \* not caught by line 88
        ELSE IF LoadedFalsy(loaded)
        THEN Outcome(FALSE, <<>>, body)           \* "or {}"
        ELSE IF loaded.kind # "dict"
        THEN Outcome(FALSE, Tagged("parse_warning", StrV("yaml_not_dict")), body)
        ELSE Outcome(FALSE, loaded.entries, body)

(***************************************************************************)
(* reconstruct_analysis(metadata, markdown_body), lines 244-270.           *)
(***************************************************************************)
BookkeepingKeys == {"parse_error", "parse_warning", "raw_frontmatter"}

CleanMetadata(metadata) ==
    SelectSeq(metadata, LAMBDA e : e.k \notin BookkeepingKeys)

\* yaml.safe_dump(default_flow_style=False, sort_keys=False): one line per entry
YamlSafeDump(d) ==
    IF d = <<>> THEN <<Ln("", "{}")>>
    ELSE [i \in 1..Len(d) |-> Ln(d[i].k, Represent(d[i].v))]

ReconstructAnalysis(metadata, markdown_body) ==
    LET yaml_str == YamlSafeDump(CleanMetadata(metadata))
        body == StripText(markdown_body)
    IN  <<Delim>> \o yaml_str \o <<Delim, Blank>> \o body \o <<Blank>>

(***************************************************************************)
(* Inputs of the codec model: optional leading blank line, optional        *)
(* opening delimiter, up to MaxYamlLines lines, optional closing           *)
(* delimiter, the lines of a body, and a last line.                        *)
(***************************************************************************)
MaxYamlLines == 2

YamlVocabulary == {
    Blank,
    Ln("agent", "security_agent"),
    Ln("total_issues", "3"),
    Ln("total_issues", "'3'"),
    Ln("summary", "'x'"),
    Ln("raw_frontmatter", "x"),
    Ln("", "[]"),
    Ln("", "text"),
    Ln("key", "[unclosed"),
    Ln("date", "2023-02-30")
}

Bodies == {
    <<>>,
    <<Blank>>,
    <<Ln("", "text")>>,
    <<Delim>>,
    <<Ln("", "text"), Delim>>,
    <<Blank, Ln("", "text")>>
}

SeqsUpTo(S, n) == UNION {[1..k -> S] : k \in 0..n}

Optional(l) == {<<>>, <<l>>}

Texts ==
    {NoneText} \cup
    {pre \o open \o y \o close \o b \o <<final>> :
        pre \in Optional(Blank), open \in Optional(Delim),
        y \in SeqsUpTo(YamlVocabulary, MaxYamlLines),
        close \in Optional(Delim),
        b \in Bodies,
        final \in {Blank, Ln("", "text")}}

Idle == Outcome(FALSE, <<>>, <<>>)

InitCodec ==
    /\ rawText \in Texts
    /\ pc = "input"
    /\ parsed = Idle
    /\ rebuilt = NoneText
    /\ reparsed = Idle

Parse ==
    /\ pc = "input"
    /\ parsed' = ParseAnalysis(rawText)
    /\ pc' = IF ParseAnalysis(rawText).raised THEN "raised" ELSE "parsed"
    /\ UNCHANGED <<rawText, rebuilt, reparsed>>

Reconstruct ==
    /\ pc = "parsed"
    /\ rebuilt' = ReconstructAnalysis(parsed.metadata, parsed.body)
    /\ pc' = "rebuilt"
    /\ UNCHANGED <<rawText, parsed, reparsed>>

Reparse ==
    /\ pc = "rebuilt"
    /\ reparsed' = ParseAnalysis(rebuilt)
    /\ pc' = "reparsed"
    /\ UNCHANGED <<rawText, parsed, rebuilt>>

IdleCodec ==
    /\ rawText = NoneText
    /\ pc = "idle"
    /\ parsed = Idle
    /\ rebuilt = NoneText
    /\ reparsed = Idle

(***************************************************************************)
(* Security after-tool callback, security_agent/agent.py lines 94-287,     *)
(* with util/security_enrichment.py and filter_false_positives of          *)
(* util/callbacks.py.                                                      *)
(*                                                                         *)
(* A dict is a record over all the keys the callback reads; a key the      *)
(* dict does not have holds Absent, a key that holds None holds None.      *)
(* line and confidence are numbers, with NoNumber for None; a confidence   *)
(* is counted in hundredths; guideline_refs is the list of references,     *)
(* empty for a finding without the key.  Texts are written in lower case   *)
(* except the severities, which Lower folds.                               *)
(***************************************************************************)
None == "<None>"

Absent == "<absent>"

NoNumber == -1

\* dict.get(key) and dict.get(key, default)
Get(x) == IF x = Absent THEN None ELSE x

GetDefault(x, d) == IF x = Absent THEN d ELSE x

Truthy(x) == x \notin {None, Absent, ""}

TruthyNum(n) == n \notin {NoNumber, 0}

\* Python's "a or b"
Or(a, b) == IF Truthy(a) THEN a ELSE b

Lower(s) ==
    CASE s = "HIGH" -> "high"
      [] s = "CRITICAL" -> "critical"
      [] OTHER -> s

\* "sub in s" for the texts of the model
Contains(sub, s) ==
    \/ sub = s
    \/ sub = ""
    \/ <<sub, s>> \in {
           <<"sql injection", "sql injection in query builder">>,
           <<"test file", "sql injection in test file">>,
           <<"sql injection", "sql injection in test file">>,
           <<"sqli", "sqli_concat">>}

\* two code excerpts longer than 80 characters that share their first 80
LongSnippets == {"<80 chars of query code> + user_id", "<80 chars of query code> + name"}

First80(s) == IF s \in LongSnippets THEN "<80 chars of query code>" ELSE s

\* texts of fewer than 8 characters once stripped
ShortTexts == {"", "x=1"}

Finding(source, rule_id, type, title, description, message, category, severity, confidence, file_path, line, code_snippet, evidence) ==
    [source |-> source, rule_id |-> rule_id, type |-> type, title |-> title,
     description |-> description, message |-> message, category |-> category,
     severity |-> severity, confidence |-> confidence, file_path |-> file_path,
     line |-> line, code_snippet |-> code_snippet, evidence |-> evidence,
     guideline_refs |-> <<>>]

OwaspCategory == "a03_injection"

\* lines 134-148
NormalizeSast(f, tool_response) ==
    Finding("sast",
            Get(f.rule_id),
            Or(Get(f.type), "sast_rule_match"),
            Get(f.title),
            Or(Get(f.description), Get(f.message)),
            Absent,
            Get(f.category),
            Lower(Or(Get(f.severity), "low")),
            f.confidence,
            Or(Get(f.file_path), Get(tool_response.file_path)),
            f.line,
            Or(Get(f.code_snippet), Get(f.evidence)),
            Absent)

\* lines 159-173
NormalizeOwasp(f, owasp_category, tool_response) ==
    Finding("owasp",
            Absent,
            Or(Get(f.type), owasp_category),
            Or(Get(f.title), Or(Get(f.message), owasp_category)),
            Or(Get(f.description), Get(f.message)),
            Absent,
            Get(f.category),
            Lower(Or(Get(f.severity), "low")),
            f.confidence,
            Or(Get(f.file_path), Get(tool_response.file_path)),
            f.line,
            Or(Get(f.code_snippet), Get(f.evidence)),
            Absent)

\* lines 121-180: SAST findings, then OWASP findings, then legacy ones as they are
Normalize(tool_response) ==
    LET sast_findings == tool_response.sast_rules
        findings == tool_response.owasp_top_10_analysis
    IN  [i \in 1..Len(sast_findings) |->
            NormalizeSast(sast_findings[i], tool_response)]
        \o [i \in 1..Len(findings) |->
               NormalizeOwasp(findings[i], OwaspCategory, tool_response)]
        \o tool_response.vulnerabilities

\* the key without the rule id, for comparison with DedupKey
KeyWithoutRule(v) ==
    <<"",
      Or(Get(v.type), ""),
      Or(Get(v.file_path), ""),
      IF TruthyNum(v.line) THEN v.line ELSE 0,
      First80(Or(Get(v.code_snippet), ""))>>

\* lines 186-192
DedupKey(v) ==
    <<Or(Get(v.rule_id), ""),
      Or(Get(v.type), ""),
      Or(Get(v.file_path), ""),
      IF TruthyNum(v.line) THEN v.line ELSE 0,
      First80(Or(Get(v.code_snippet), ""))>>

RECURSIVE DedupFrom(_, _, _)
DedupFrom(vs, seen, deduped) ==
    IF vs = <<>> THEN deduped
    ELSE IF DedupKey(Head(vs)) \in seen
         THEN DedupFrom(Tail(vs), seen, deduped)
         ELSE DedupFrom(Tail(vs), seen \cup {DedupKey(Head(vs))},
                        Append(deduped, Head(vs)))

Dedup(vulnerabilities) == DedupFrom(vulnerabilities, {}, <<>>)

(***************************************************************************)
(* filter_false_positives, util/callbacks.py lines 281-344.  fp_config is  *)
(* NoConfig when false_positive_patterns.yaml was not loaded, else the     *)
(* patterns of security_agent.                                             *)
(***************************************************************************)
NoConfig == [loaded |-> FALSE, patterns |-> <<>>]

FpConfig(patterns) == [loaded |-> TRUE, patterns |-> patterns]

\* lines 324-326: .lower() of a key that is there and holds None
IsFalsePositiveRaises(finding) ==
    None \in {finding.type, finding.description, finding.code_snippet}

IsFalsePositive(finding, patterns) ==
    LET finding_type == Lower(GetDefault(finding.type, ""))
        finding_desc == Lower(GetDefault(finding.description, ""))
        finding_code == Lower(GetDefault(finding.code_snippet, ""))
    IN  \E i \in 1..Len(patterns) :
            /\ patterns[i].type # ""
            /\ Contains(patterns[i].type, finding_type)
            /\ \/ \E k \in 1..Len(patterns[i].indicators) :
                      Contains(patterns[i].indicators[k], finding_desc)
               \/ /\ patterns[i].code_pattern # ""
                  /\ Contains(patterns[i].code_pattern, finding_code)

FilterFalsePositives(findings, fp_config) ==
    IF ~fp_config.loaded
    THEN [findings |-> findings, removed_count |-> 0]
    ELSE IF \E i \in 1..Len(findings) : IsFalsePositiveRaises(findings[i])
    THEN [findings |-> findings, removed_count |-> 0]     \* lines 317-319
    ELSE LET kept == SelectSeq(findings,
                        LAMBDA f : ~IsFalsePositive(f, fp_config.patterns))
         IN  [findings |-> kept, removed_count |-> Len(findings) - Len(kept)]

\* lines 224-226
HasDescription(vuln) == Truthy(Get(vuln.description)) \/ Truthy(Get(vuln.title))

HasEvidence(vuln) == TruthyNum(vuln.line) \/ Truthy(Get(vuln.code_snippet))

Validate(filtered_vulns) ==
    SelectSeq(filtered_vulns, LAMBDA v : HasDescription(v) /\ HasEvidence(v))

(***************************************************************************)
(* util/security_enrichment.py.  Confidence in hundredths: the sums the    *)
(* model's findings give are exact in that unit.                           *)
(***************************************************************************)
SEVERITY_ORDER == <<"low", "medium", "high", "critical">>

ClampLo == 5

ClampHi == 98

DefaultConfidence == 55

\* a value passed on as it is, for comparison with clamp
unclamped(x) == x

clamp(x) == IF x < ClampLo THEN ClampLo ELSE IF x > ClampHi THEN ClampHi ELSE x

SeverityIndex(sev) == CHOOSE i \in 1..Len(SEVERITY_ORDER) : SEVERITY_ORDER[i] = sev

KnownSeverity(sev) == \E i \in 1..Len(SEVERITY_ORDER) : SEVERITY_ORDER[i] = sev

downgrade_severity(sev, steps) ==
    LET s == IF KnownSeverity(Lower(Or(sev, "low"))) THEN Lower(Or(sev, "low"))
             ELSE "low"
        idx == SeverityIndex(s) - steps
    IN  SEVERITY_ORDER[IF idx < 1 THEN 1 ELSE idx]

\* the boosts alone, without the two penalties, for comparison
confidence_without_penalties(finding) ==
    LET base == IF finding.confidence = NoNumber THEN DefaultConfidence
                ELSE finding.confidence
        boosts == (IF Truthy(Get(finding.file_path)) THEN 10 ELSE 0)
                  + (IF TruthyNum(finding.line) THEN 10 ELSE 0)
                  + (IF Truthy(Get(finding.code_snippet))
                        \/ Truthy(Get(finding.evidence)) THEN 10 ELSE 0)
    IN  clamp(base + boosts)

compute_confidence(finding) ==
    LET base == IF finding.confidence = NoNumber THEN DefaultConfidence
                ELSE finding.confidence
        evidence == Lower(Or(Or(Get(finding.evidence), Get(finding.code_snippet)), ""))
        boosts == (IF Truthy(Get(finding.file_path)) THEN 10 ELSE 0)
                  + (IF TruthyNum(finding.line) THEN 10 ELSE 0)
                  + (IF Truthy(Get(finding.code_snippet))
                        \/ Truthy(Get(finding.evidence)) THEN 10 ELSE 0)
        penalties ==
            (IF finding.line = 1
                /\ Contains("no security logging detected", evidence)
             THEN 15 ELSE 0)
            + (IF evidence \in ShortTexts /\ ~Truthy(Get(finding.code_snippet))
               THEN 10 ELSE 0)
    IN  clamp(base + boosts - penalties)

\* an adjustment that never lowers by more than one step, for comparison
adjust_one_step(severity, confidence) ==
    LET sev == IF KnownSeverity(Lower(Or(severity, "low")))
               THEN Lower(Or(severity, "low")) ELSE "low"
    IN  IF confidence < 45 /\ sev \in {"critical", "high"}
        THEN downgrade_severity(sev, 1)
        ELSE sev

adjust_severity_by_confidence(severity, confidence) ==
    LET sev == IF KnownSeverity(Lower(Or(severity, "low")))
               THEN Lower(Or(severity, "low")) ELSE "low"
    IN  IF confidence < 25 THEN downgrade_severity(sev, 2)
        ELSE IF confidence < 45 /\ sev \in {"critical", "high"}
        THEN downgrade_severity(sev, 1)
        ELSE sev

\* security_guidelines of the session state: empty, or a rulebook
NoGuidelines == [categories |-> <<>>]

InjectionCategory == "Injection & Unsafe Calls"

Rulebook ==
    [categories |-> <<[name |-> InjectionCategory,
                       rules |-> <<"parameterize queries", "avoid eval",
                                   "validate input">>]>>]

\* lines 101-114, over title, type, message and description
infer_category_from_text(finding) ==
    IF \E t \in {Get(finding.title), Get(finding.type), Get(finding.message),
                 Get(finding.description)} :
           Contains("sql injection", Lower(t))
    THEN InjectionCategory ELSE None

\* lines 117-167; the findings of the model carry no CWE
attach_guideline_refs(finding, security_guidelines) ==
    IF security_guidelines.categories = <<>> THEN finding
    ELSE
    LET category == IF Truthy(Get(finding.category)) THEN finding.category
                    ELSE infer_category_from_text(finding)
        rules == {security_guidelines.categories[i].rules :
                     i \in {k \in 1..Len(security_guidelines.categories) :
                               security_guidelines.categories[k].name = category}}
        refs == IF rules = {} THEN <<>>
                ELSE LET r == CHOOSE x \in rules : TRUE
                     IN  [i \in 1..(IF Len(r) < 2 THEN Len(r) ELSE 2) |->
                             [category |-> category, rule |-> r[i]]]
    IN  IF refs = <<>> THEN finding
        ELSE [finding EXCEPT !.guideline_refs = refs]

\* lines 243-250
Enrich(vuln, security_guidelines) ==
    LET conf == compute_confidence(vuln)
        sev == adjust_severity_by_confidence(GetDefault(vuln.severity, "low"), conf)
    IN  attach_guideline_refs(
            [vuln EXCEPT !.confidence = conf, !.severity = sev],
            security_guidelines)

Summary(total, critical, high, medium, low) ==
    [total_vulnerabilities |-> total,
     critical_vulnerabilities |-> critical,
     high_vulnerabilities |-> high,
     medium_vulnerabilities |-> medium,
     low_vulnerabilities |-> low]

CountSeverity(vulns, severity) ==
    Cardinality({i \in 1..Len(vulns) :
                    Lower(Or(Get(vulns[i].severity), "low")) = severity})

\* the summary the scanner sent along
ProducerSummary(tool_response) == tool_response.vulnerability_summary

\* lines 257-271, over tool_response["vulnerabilities"] as line 252 set it
RecomputeSummary(tool_response) ==
    LET enriched == tool_response.vulnerabilities
    IN  Summary(Len(enriched),
                CountSeverity(enriched, "critical"),
                CountSeverity(enriched, "high"),
                CountSeverity(enriched, "medium"),
                CountSeverity(enriched, "low"))

(***************************************************************************)
(* Inputs of the callback: the tool's name, the scan response with up to   *)
(* MaxFindings findings over its three blocks, and the configuration.      *)
(***************************************************************************)
MaxFindings == 3

ScanTool == "scan_security_vulnerabilities"

ToolNames == {ScanTool, "analyze_code_quality"}

LongA == "<80 chars of query code> + user_id"

LongB == "<80 chars of query code> + name"

SastVocabulary == {
    Finding(Absent, "R1", "sqli_concat", "sql injection",
            "sql injection in query builder", Absent, Absent, "HIGH",
            NoNumber, "app.py", 42, LongA, Absent),
    Finding(Absent, "R1", "sqli_concat", "sql injection",
            "sql injection in query builder", Absent, Absent, "CRITICAL",
            NoNumber, "app.py", 42, LongB, Absent),
    Finding(Absent, "R2", "sqli_concat", "sql injection",
            "sql injection in query builder", Absent, Absent, "HIGH",
            NoNumber, "app.py", 42, LongA, Absent),
    Finding(Absent, "R3", Absent, None, "weak hash", Absent, Absent, Absent,
            10, Absent, NoNumber, Absent, Absent),
    Finding(Absent, "R4", "sqli_concat", None, "sql injection in test file",
            Absent, Absent, "CRITICAL", 10, Absent, 42, "x=1", Absent)
}

OwaspVocabulary == {
    Finding(Absent, Absent, Absent, Absent, Absent,
            "no security logging detected", Absent, Absent, NoNumber, Absent,
            1, Absent, "no security logging detected"),
    Finding(Absent, Absent, "sqli_concat", "sql injection", Absent, Absent,
            Absent, "CRITICAL", 10, Absent, 42, Absent, Absent)
}

LegacyVocabulary == {
    Finding(Absent, "R1", "sqli_concat", Absent,
            "sql injection in query builder", Absent, Absent, "info", 90,
            "app.py", 42, LongA, Absent),
    Finding(Absent, Absent, Absent, "sql injection", Absent, Absent, Absent,
            "HIGH", NoNumber, Absent, NoNumber, "x=1", Absent)
}

\* counts the scanner made before the callback ran
ScannerSummary == Summary(7, 7, 0, 0, 0)

NotADict ==
    [is_dict |-> FALSE, file_path |-> Absent, sast_rules |-> <<>>,
     owasp_top_10_analysis |-> <<>>, vulnerabilities |-> <<>>,
     vulnerability_summary |-> ScannerSummary]

\* how many findings each of the three blocks holds
BlockSizes ==
    {n \in (0..MaxFindings) \X (0..MaxFindings) \X (0..MaxFindings) :
        n[1] + n[2] + n[3] <= MaxFindings}

ScanResponses(n) ==
    {[is_dict |-> TRUE, file_path |-> fp, sast_rules |-> s,
      owasp_top_10_analysis |-> o, vulnerabilities |-> l,
      vulnerability_summary |-> ScannerSummary] :
        fp \in {Absent, "app.py"},
        s \in [1..n[1] -> SastVocabulary],
        o \in [1..n[2] -> OwaspVocabulary],
        l \in [1..n[3] -> LegacyVocabulary]}

ToolResponses == {NotADict} \cup UNION {ScanResponses(n) : n \in BlockSizes}

TestFilePattern ==
    [type |-> "sqli", indicators |-> <<"test file">>, code_pattern |-> ""]

Configs == {
    [fp_config |-> NoConfig, security_guidelines |-> NoGuidelines],
    [fp_config |-> FpConfig(<<TestFilePattern>>), security_guidelines |-> NoGuidelines],
    [fp_config |-> FpConfig(<<TestFilePattern>>), security_guidelines |-> Rulebook]
}

NoTrace ==
    [normalized |-> <<>>, deduped |-> <<>>, filtered |-> <<>>,
     validated |-> <<>>, false_positives |-> 0, missing_evidence |-> 0]

InitSec ==
    /\ toolName \in ToolNames
    /\ received \in ToolResponses
    /\ toolResponse = received
    /\ secConfig \in Configs
    /\ secReturn = "pending"
    /\ secTrace = NoTrace

\* lines 110-116: another tool's response, or one that is no dict, is let through
ReturnNone ==
    /\ secReturn' = "None"
    /\ UNCHANGED <<toolResponse, secTrace>>

\* lines 200-209
ReturnEmpty(normalized) ==
    /\ toolResponse' = [toolResponse EXCEPT
                            !.vulnerabilities = <<>>,
                            !.vulnerability_summary = Summary(0, 0, 0, 0, 0)]
    /\ secTrace' = [NoTrace EXCEPT !.normalized = normalized]
    /\ secReturn' = "tool_response"

security_agent_after_tool ==
    /\ secReturn = "pending"
    /\ IF toolName # ScanTool \/ ~toolResponse.is_dict THEN ReturnNone
       ELSE
       LET normalized == Normalize(toolResponse)
           deduped == Dedup(normalized)
           fp == FilterFalsePositives(deduped, secConfig.fp_config)
           validated == Validate(fp.findings)
           enriched == [i \in 1..Len(validated) |->
                           Enrich(validated[i], secConfig.security_guidelines)]
           with_vulns == [toolResponse EXCEPT !.vulnerabilities = enriched]
       IN  IF deduped = <<>> THEN ReturnEmpty(normalized)
           ELSE
           /\ toolResponse' = [with_vulns EXCEPT
                                   !.vulnerability_summary =
                                       RecomputeSummary(with_vulns)]
           /\ secTrace' =
                  [normalized |-> normalized, deduped |-> deduped,
                   filtered |-> fp.findings, validated |-> validated,
                   false_positives |-> fp.removed_count,
                   missing_evidence |-> Len(fp.findings) - Len(validated)]
           /\ secReturn' = "tool_response"
    /\ UNCHANGED <<toolName, received, secConfig>>

IdleSec ==
    /\ toolName = ScanTool
    /\ received = NotADict
    /\ toolResponse = NotADict
    /\ secConfig = [fp_config |-> NoConfig, security_guidelines |-> NoGuidelines]
    /\ secReturn = "idle"
    /\ secTrace = NoTrace

(***************************************************************************)
(* Regex content filters: filter_content (util/markdown_yaml_parser.py     *)
(* lines 273-291), filter_bias (util/callbacks.py lines 225-274) and the   *)
(* re.sub loop of engineering_agent_after_agent (lines 121-143), with the  *)
(* rule sets the agents pass to them.                                      *)
(*                                                                         *)
(* A text is the sequence of its words, which one space separates.  The    *)
(* patterns of the rule sets begin and end at word boundaries, so a rule   *)
(* is given by the word sequences its pattern matches (alts) or, for       *)
(* only.*is acceptable, by the phrases that open and close the match; rep  *)
(* is the replacement.  A malformed pattern is one re.compile rejects.     *)
(***************************************************************************)
Phrase(alts, rep) ==
    [kind |-> "phrase", alts |-> alts, open |-> <<>>, close |-> <<>>, rep |-> rep]

Span(open, close, rep) ==
    [kind |-> "span", alts |-> {}, open |-> open, close |-> close, rep |-> rep]

Malformed ==
    [kind |-> "malformed", alts |-> {}, open |-> <<>>, close |-> <<>>, rep |-> <<>>]

\* carbon_emission_agent/agent.py lines 99-106
greenwashing_patterns == <<
    Phrase({<<"dramatically", "reduce">>}, <<"reduce">>),
    Phrase({<<"eliminate", "carbon">>, <<"eliminate", "emissions">>,
            <<"eliminate", "environmental", "impact">>}, <<"reduce">>),
    Phrase({<<"zero", "carbon">>, <<"zero", "impact">>, <<"zero", "emissions">>},
           <<"lower-carbon">>),
    Phrase({<<"perfectly", "green">>, <<"perfectly", "efficient">>,
            <<"perfectly", "clean">>}, <<"more", "efficient">>),
    Phrase({<<"massive", "energy", "savings">>, <<"massive", "carbon", "reduction">>},
           <<"energy", "savings">>),
    Phrase({<<"completely", "eliminate">>, <<"completely", "remove">>}, <<"reduce">>)
>>

\* carbon_emission_agent/agent.py lines 116-119
bias_patterns == <<
    Phrase({<<"stupid">>, <<"dumb">>, <<"idiot">>, <<"lazy">>, <<"incompetent">>},
           <<"[filtered]">>),
    Phrase({<<"crap">>, <<"shit">>, <<"sucks">>}, <<"[filtered]">>)
>>

\* engineering_practices_agent/agent.py lines 121-128
dogma_patterns == <<
    Phrase({<<"must", "use", "microservices">>}, <<"consider", "using", "microservices">>),
    Phrase({<<"always", "use">>}, <<"typically", "use">>),
    Phrase({<<"never", "use">>}, <<"avoid", "using">>),
    Span(<<"only">>, <<"is", "acceptable">>, <<"is", "recommended">>),
    Phrase({<<"should", "always">>}, <<"should", "typically">>),
    Phrase({<<"must", "follow">>}, <<"should", "follow">>)
>>

\* flags=re.IGNORECASE
FoldCase(w) ==
    CASE w = "Zero" -> "zero"
      [] w = "Lazy" -> "lazy"
      [] w = "Always" -> "always"
      [] OTHER -> w

MatchesAt(phrase, text, i) ==
    /\ i + Len(phrase) - 1 <= Len(text)
    /\ \A k \in 1..Len(phrase) : FoldCase(text[i + k - 1]) = phrase[k]

\* number of words of the match that starts at word i, 0 if there is none
MatchLen(rule, text, i) ==
    IF rule.kind = "span"
    THEN LET ends == {j \in (i + Len(rule.open))..Len(text) :
                         MatchesAt(rule.close, text, j)}
         IN  IF MatchesAt(rule.open, text, i) /\ ends # {}
             THEN Max(ends) + Len(rule.close) - i     \* .* is greedy
             ELSE 0
    ELSE LET hits == {a \in rule.alts : MatchesAt(a, text, i)}
         IN  IF hits = {} THEN 0 ELSE Len(CHOOSE a \in hits : TRUE)

\* re.subn(pattern, replacement, text): matches taken left to right, no overlap
RECURSIVE SubnFrom(_, _, _, _, _)
SubnFrom(rule, text, i, out, count) ==
    IF i > Len(text) THEN [text |-> out, count |-> count]
    ELSE IF MatchLen(rule, text, i) > 0
    THEN SubnFrom(rule, text, i + MatchLen(rule, text, i), out \o rule.rep, count + 1)
    ELSE SubnFrom(rule, text, i + 1, Append(out, text[i]), count)

Subn(rule, text) == SubnFrom(rule, text, 1, <<>>, 0)

PassResult(raised, text, count) == [raised |-> raised, text |-> text, count |-> count]

\* filter_content: no handler around re.subn, so re.error leaves the function
RECURSIVE FilterContentFrom(_, _, _)
FilterContentFrom(patterns, filtered, total_replacements) ==
    IF patterns = <<>> THEN PassResult(FALSE, filtered, total_replacements)
    ELSE IF Head(patterns).kind = "malformed" THEN PassResult(TRUE, <<>>, 0)
    ELSE FilterContentFrom(Tail(patterns),
                           Subn(Head(patterns), filtered).text,
                           total_replacements + Subn(Head(patterns), filtered).count)

filter_content(markdown_body, patterns) == FilterContentFrom(patterns, markdown_body, 0)

\* profanity_blocklist of the guardrail configuration
ProfanityBlocklist == <<"crap">>

ProfanityRules ==
    [i \in 1..Len(ProfanityBlocklist) |->
        Phrase({<<ProfanityBlocklist[i]>>}, <<"[removed]">>)]

\* filter_bias: one count for each rule that changed the text; one handler
\* around all the rules, which returns the text it was given and 0
RECURSIVE FilterBiasFrom(_, _, _, _)
FilterBiasFrom(rules, text, filtered, replacements_count) ==
    IF rules = <<>> THEN PassResult(FALSE, filtered, replacements_count)
    ELSE IF Head(rules).kind = "malformed" THEN PassResult(FALSE, text, 0)
    ELSE LET new_text == Subn(Head(rules), filtered).text
         IN  FilterBiasFrom(Tail(rules), text, new_text,
                            IF new_text # filtered THEN replacements_count + 1
                            ELSE replacements_count)

filter_bias(text, subjective_patterns) ==
    FilterBiasFrom(subjective_patterns \o ProfanityRules, text, text, 0)

\* engineering_agent_after_agent lines 131-143: re.sub with each rule, one
\* count if the description changed; re.error leaves the loop
RECURSIVE SoftenFrom(_, _)
SoftenFrom(patterns, desc) ==
    IF patterns = <<>> THEN PassResult(FALSE, desc, 0)
    ELSE IF Head(patterns).kind = "malformed" THEN PassResult(TRUE, <<>>, 0)
    ELSE SoftenFrom(Tail(patterns), Subn(Head(patterns), desc).text)

SoftenDogma(original_desc, patterns) ==
    LET r == SoftenFrom(patterns, original_desc)
    IN  IF r.raised THEN r
        ELSE PassResult(FALSE, r.text, IF r.text # original_desc THEN 1 ELSE 0)

ApplyFilter(via, rules, text) ==
    CASE via = "filter_content" -> filter_content(text, rules)
      [] via = "filter_bias" -> filter_bias(text, rules)
      [] via = "re.sub" -> SoftenDogma(text, rules)

(***************************************************************************)
(* Inputs of the filter model: a rule set with the function that applies   *)
(* it and the words of its texts, a text of up to MaxWords words, and      *)
(* optionally one rule of the set replaced by a malformed pattern.         *)
(***************************************************************************)
MaxWords == 4

RuleSets == {
    [name |-> "greenwashing", via |-> "filter_content", rules |-> greenwashing_patterns,
     words |-> {"dramatically", "reduce", "completely", "eliminate", "carbon", "Zero"}],
    [name |-> "bias", via |-> "filter_content", rules |-> bias_patterns,
     words |-> {"stupid", "crap", "code", "Lazy"}],
    [name |-> "bias_config", via |-> "filter_bias", rules |-> bias_patterns,
     words |-> {"stupid", "crap", "code", "Lazy"}],
    [name |-> "dogma", via |-> "re.sub", rules |-> dogma_patterns,
     words |-> {"only", "is", "acceptable", "Always", "use", "should", "never"}]
}

\* the rule list with rule k replaced by a malformed pattern; k = 0 for none
WithMalformed(rules, k) ==
    [i \in 1..Len(rules) |-> IF i = k THEN Malformed ELSE rules[i]]

NoPass == PassResult(FALSE, <<>>, 0)

InitFilter ==
    \E rs \in RuleSets :
        /\ filterVia = rs.via
        /\ ruleSetName = rs.name
        /\ \E k \in {0, 1, Len(rs.rules)} : filterRules = WithMalformed(rs.rules, k)
        /\ filterInput \in UNION {[1..n -> rs.words] : n \in 1..MaxWords}
        /\ filterPc = "start"
        /\ firstPass = NoPass
        /\ secondPass = NoPass

FirstPass ==
    /\ filterPc = "start"
    /\ firstPass' = ApplyFilter(filterVia, filterRules, filterInput)
    /\ filterPc' = "once"
    /\ UNCHANGED <<filterVia, ruleSetName, filterRules, filterInput, secondPass>>

SecondPass ==
    /\ filterPc = "once"
    /\ ~firstPass.raised
    /\ secondPass' = ApplyFilter(filterVia, filterRules, firstPass.text)
    /\ filterPc' = "twice"
    /\ UNCHANGED <<filterVia, ruleSetName, filterRules, filterInput, firstPass>>

IdleFilter ==
    /\ filterVia = "filter_content"
    /\ ruleSetName = "bias"
    /\ filterRules = <<>>
    /\ filterInput = <<>>
    /\ filterPc = "idle"
    /\ firstPass = NoPass
    /\ secondPass = NoPass

(***************************************************************************)
(* Schema validation, util/markdown_yaml_parser.py lines 130-241.          *)
(*                                                                         *)
(* The metadata is the caller's dict, an ordered sequence of entries; a    *)
(* value is a YAML value whose s is the repr of the Python value.  The     *)
(* numbers of the model are the ones NumberOf lists, counted in            *)
(* hundredths.  normalize_metadata assigns into the dict it is given, so   *)
(* validate_analysis yields the caller's dict after the call next to the   *)
(* list of errors.                                                         *)
(***************************************************************************)
HasKey(d, k) == \E i \in 1..Len(d) : d[i].k = k

Lookup(d, k) == (CHOOSE e \in {d[i] : i \in 1..Len(d)} : e.k = k).v

\* type(value).__name__
TypeName(v) == IF v.ty = "null" THEN "NoneType" ELSE v.ty

\* str.strip() of a scalar
StripScalar(s) == IF s = " 3 " THEN "3" ELSE s

\* re.fullmatch(r"\d+", s) and re.fullmatch(r"\d+\.0+", s)
DigitsOnly(s) == s \in {"0", "1", "2", "3"}

DigitsPointZeros(s) == s \in {"0.0", "1.0", "2.0", "3.0"}

\* the texts float() takes, with the number each one denotes
FloatTexts ==
    {"0", "1", "2", "3", "-3", "0.0", "0.5", "1.0", "1.5", "2.0", "3.0",
     "-3.0", "-0.1"}

NumberOf(s) ==
    CASE s \in {"0", "0.0"} -> 0
      [] s = "0.5" -> 50
      [] s \in {"1", "1.0", "True"} -> 100
      [] s = "1.5" -> 150
      [] s \in {"2", "2.0"} -> 200
      [] s \in {"3", "3.0"} -> 300
      [] s \in {"-3", "-3.0"} -> 0 - 300
      [] s = "-0.1" -> 0 - 10

\* repr(float(x)) and repr(int(float(x)))
FloatRepr(s) ==
    CASE s \in {"0", "0.0"} -> "0.0"
      [] s \in {"1", "1.0", "True"} -> "1.0"
      [] s \in {"2", "2.0"} -> "2.0"
      [] s \in {"3", "3.0"} -> "3.0"
      [] s \in {"-3", "-3.0"} -> "-3.0"
      [] OTHER -> s

IntRepr(s) ==
    CASE s = "0.0" -> "0"
      [] s = "1.0" -> "1"
      [] s = "2.0" -> "2"
      [] s = "3.0" -> "3"
      [] OTHER -> s

Coerced(value, ok) == [value |-> value, ok |-> ok]

\* isinstance(value, int) holds of a bool as well
IsInstanceInt(v) == v.ty \in {"int", "bool"}

IsInstanceIntOrFloat(v) == v.ty \in {"int", "bool", "float"}

coerce_int(value) ==
    IF IsInstanceInt(value) THEN Coerced(value, TRUE)
    ELSE IF value.ty = "str"
    THEN LET s == StripScalar(value.s)
         IN  IF DigitsOnly(s) THEN Coerced(IntV(s), TRUE)
             ELSE IF DigitsPointZeros(s) THEN Coerced(IntV(IntRepr(s)), TRUE)
             ELSE Coerced(value, FALSE)
    ELSE Coerced(value, FALSE)

coerce_float(value) ==
    IF IsInstanceIntOrFloat(value) THEN Coerced(FloatV(FloatRepr(value.s)), TRUE)
    ELSE IF value.ty = "str"
    THEN LET s == StripScalar(value.s)
         IN  IF s \in FloatTexts THEN Coerced(FloatV(FloatRepr(s)), TRUE)
             ELSE Coerced(value, FALSE)
    ELSE Coerced(value, FALSE)

\* a normalisation that leaves the dict as it is, for comparison
normalize_nothing(metadata) == metadata

normalize_metadata(metadata) ==
    LET c == IF HasKey(metadata, "confidence")
                  /\ coerce_float(Lookup(metadata, "confidence")).ok
             THEN SetItem(metadata, "confidence",
                          coerce_float(Lookup(metadata, "confidence")).value)
             ELSE metadata
    IN  IF HasKey(c, "total_issues") /\ coerce_int(Lookup(c, "total_issues")).ok
        THEN SetItem(c, "total_issues", coerce_int(Lookup(c, "total_issues")).value)
        ELSE c

Err(msg, arg) == [msg |-> msg, arg |-> arg]

required_fields == <<"agent", "summary", "total_issues", "confidence">>

MissingErrors(metadata) ==
    LET missing == SelectSeq(required_fields, LAMBDA f : ~HasKey(metadata, f))
    IN  [i \in 1..Len(missing) |->
            Err("Missing required metadata field", missing[i])]

\* str(metadata.get("agent"))
GotAgent(metadata) ==
    IF HasKey(metadata, "agent") THEN Lookup(metadata, "agent").s ELSE "None"

AgentErrors(metadata, agent_name) ==
    IF agent_name # None /\ agent_name # ""
          /\ (~HasKey(metadata, "agent")
                 \/ Lookup(metadata, "agent") # StrV(agent_name))
    THEN <<Err("Agent mismatch", GotAgent(metadata))>>
    ELSE <<>>

ConfidenceErrors(metadata) ==
    IF ~HasKey(metadata, "confidence") THEN <<>>
    ELSE LET conf == Lookup(metadata, "confidence")
         IN  IF ~IsInstanceIntOrFloat(conf)
             THEN <<Err("Confidence must be numeric", TypeName(conf))>>
             ELSE IF ~(0 <= NumberOf(conf.s) /\ NumberOf(conf.s) <= 100)
             THEN <<Err("Confidence outside valid range", FloatRepr(conf.s))>>
             ELSE <<>>

IssuesErrors(metadata) ==
    IF ~HasKey(metadata, "total_issues") THEN <<>>
    ELSE LET issues == Lookup(metadata, "total_issues")
         IN  IF ~IsInstanceInt(issues)
             THEN <<Err("total_issues must be integer", TypeName(issues))>>
             ELSE IF NumberOf(issues.s) < 0
             THEN <<Err("total_issues cannot be negative", issues.s)>>
             ELSE <<>>

\* re.search(r"^\s*#{1,6}\s+\S", body, re.MULTILINE): the blanks after the
\* hashes may run over line ends
HeadingLine == Ln("", "# Title")

HashLine == Ln("", "#")

HasHeading(body) ==
    \E i \in 1..Len(body) :
        \/ body[i] = HeadingLine
        \/ body[i] = HashLine /\ \E j \in (i + 1)..Len(body) : ~IsBlank(body[j])

BodyErrors(markdown_body) ==
    LET body == StripText(markdown_body)
    IN  IF body = <<Blank>> THEN <<Err("Empty markdown body", "")>>
        ELSE IF ~HasHeading(body) THEN <<Err("Missing a markdown heading", "")>>
        ELSE <<>>

Validation(metadata, errors) == [metadata |-> metadata, errors |-> errors]

validate_analysis(metadata, markdown_body, agent_name, coerce_types) ==
    LET md == IF coerce_types THEN normalize_metadata(metadata) ELSE metadata
    IN  IF HasKey(md, "parse_error")
        THEN Validation(md, <<Err("YAML parsing failed",
                                  Lookup(md, "parse_error").s)>>)
        ELSE Validation(md, MissingErrors(md) \o AgentErrors(md, agent_name)
                                \o ConfidenceErrors(md) \o IssuesErrors(md)
                                \o BodyErrors(markdown_body))

(***************************************************************************)
(* Inputs of the validation model: a dict with each of the five keys       *)
(* present or not, a body, the expected agent and coerce_types.            *)
(***************************************************************************)
AgentValues == {StrV("security_agent"), StrV("code_quality_agent")}

IssuesValues ==
    {IntV("3"), IntV("0"), IntV("-3"), StrV("3"), StrV(" 3 "), StrV("3.0"),
     StrV("-3"), StrV("three"), FloatV("3.0"), BoolV("True"), Null}

ConfidenceValues ==
    {FloatV("0.5"), FloatV("1.5"), FloatV("-0.1"), FloatV("1.0"), IntV("1"),
     IntV("0"), IntV("2"), StrV("0.5"), StrV("1.5"), StrV("high"),
     BoolV("True"), Null}

OptionalEntry(k, values) == {<<>>} \cup {<<Entry(k, v)>> : v \in values}

Metadatas ==
    {a \o m \o t \o c \o e :
        a \in OptionalEntry("agent", AgentValues),
        m \in OptionalEntry("summary", {StrV("x")}),
        t \in OptionalEntry("total_issues", IssuesValues),
        c \in OptionalEntry("confidence", ConfidenceValues),
        e \in OptionalEntry("parse_error", {ParseErrorMessage})}

ValidatedBodies ==
    {<<Blank>>,
     <<Ln("", "text")>>,
     <<HeadingLine, Ln("", "text"), Blank>>,
     <<HashLine, Blank, Ln("", "text")>>,
     <<Ln("", "text"), HashLine>>}

ExpectedAgents == {None, "security_agent", "code_quality_agent"}

NotValidated == Validation(<<>>, <<>>)

InitValid ==
    /\ vMetadata \in Metadatas
    /\ vBody \in ValidatedBodies
    /\ vAgentName \in ExpectedAgents
    /\ vCoerce \in BOOLEAN
    /\ vPc = "input"
    /\ vResult = NotValidated

CallValidate ==
    /\ vPc = "input"
    /\ vResult' = validate_analysis(vMetadata, vBody, vAgentName, vCoerce)
    /\ vPc' = "validated"
    /\ UNCHANGED <<vMetadata, vBody, vAgentName, vCoerce>>

IdleValid ==
    /\ vMetadata = <<>>
    /\ vBody = <<Blank>>
    /\ vAgentName = None
    /\ vCoerce = TRUE
    /\ vPc = "idle"
    /\ vResult = NotValidated

(***************************************************************************)
(* After-agent guardrail callbacks: security_agent_after_agent             *)
(* (security_agent/agent.py lines 290-378), carbon_agent_after_agent       *)
(* (carbon_emission_agent/agent.py lines 75-134) and                       *)
(* quality_agent_after_agent (code_quality_agent/agent.py lines 149-208),  *)
(* with validate_cve_exists (util/callbacks.py lines 351-392).             *)
(*                                                                         *)
(* The session state maps the output key of each agent to its document, a  *)
(* text of the codec model.  The filters read the body as its words, a     *)
(* newline word between two lines; no phrase of the rule sets runs over a  *)
(* line end in the bodies of this model.                                   *)
(***************************************************************************)
\* the words of the body lines the filters act on
GuardWords(txt) ==
    CASE txt = "" -> <<>>
      [] txt = "# Title" -> <<"#", "Title">>
      [] txt = "stupid stupid code" -> <<"stupid", "stupid", "code">>
      [] txt = "dramatically reduce carbon" -> <<"dramatically", "reduce", "carbon">>
      [] txt = "see CVE-2099-9999" -> <<"see", "CVE-2099-9999">>
      [] OTHER -> <<txt>>

LineWords(l) == IF l.key # "" THEN <<l.key \o ":", l.txt>> ELSE GuardWords(l.txt)

RECURSIVE Unwords(_)
Unwords(ws) ==
    IF ws = <<>> THEN ""
    ELSE IF Len(ws) = 1 THEN ws[1]
    ELSE ws[1] \o " " \o Unwords(Tail(ws))

BodyWords(body) == JoinLines([i \in 1..Len(body) |-> LineWords(body[i])])

\* the body whose words are ws: a line the filters left alone is the line
\* it was
WordsBody(body, ws) ==
    LET lines == SplitLines(ws)
    IN  [i \in 1..Len(body) |->
            IF lines[i] = LineWords(body[i]) THEN body[i]
            ELSE Ln("", Unwords(lines[i]))]

\* code_quality_agent/agent.py lines 183-186
quality_bias_patterns == <<
    Phrase({<<"messy">>, <<"ugly">>, <<"bad">>, <<"terrible">>, <<"awful">>,
            <<"horrible">>, <<"stupid">>, <<"dumb">>, <<"idiot">>, <<"lazy">>},
           <<"[filtered]">>),
    Phrase({<<"crap">>, <<"shit">>, <<"sucks">>, <<"garbage">>}, <<"[filtered]">>)
>>

\* filter_bias with its configuration: without bias_prevention.yaml it
\* returns the text and 0 (lines 243-245)
FilterBiasConfigured(words, loaded) ==
    IF loaded THEN filter_bias(words, bias_patterns) ELSE PassResult(FALSE, words, 0)

\* re.findall(r"CVE-\d{4}-\d{4,7}", filtered_body)
IsCve(w) == w = "CVE-2099-9999"

\* validate_cve_exists: what requests.get meets decides
LookupOutcomes ==
    {"found", "not_found", "no_total", "not_json", "status", "timeout", "error"}

validate_cve_exists(outcome) ==
    CASE outcome = "found" -> TRUE          \* 200, totalResults > 0
      [] outcome = "not_found" -> FALSE     \* 200, totalResults = 0
      [] outcome = "no_total" -> FALSE      \* 200, a JSON object without totalResults
      [] outcome = "not_json" -> TRUE       \* 200, response.json() raises
      [] outcome = "status" -> TRUE         \* any other status code
      [] outcome = "timeout" -> TRUE        \* requests.exceptions.Timeout
      [] outcome = "error" -> TRUE          \* any other exception

GuardTrace(reached, body, bias, greenwashing, invalid_cves) ==
    [reached |-> reached, filtered_body |-> body, bias |-> bias,
     greenwashing |-> greenwashing, invalid_cves |-> invalid_cves]

NoGuardTrace == GuardTrace("nothing", <<>>, 0, 0, 0)

\* how far the three callbacks go alike: the document, its parse, the
\* validation that only logs
GuardStage(analysis, parsed_doc) ==
    IF analysis \in {NoneText, <<Blank>>} THEN "no_document"
    ELSE IF parsed_doc.raised THEN "raised"
    ELSE IF parsed_doc.metadata = <<>> THEN "no_metadata"
    ELSE "filtered"

\* the trace of a callback that stopped at a stage, or the trace of its run
StageTrace(stage, run_trace) ==
    IF stage # "filtered" THEN GuardTrace(stage, <<>>, 0, 0, 0) ELSE run_trace

\* lines 341-358: the ids the lookup rejects are replaced in the body
RemoveCves(words, invalid_cves) ==
    [i \in 1..Len(words) |->
        IF \E k \in 1..Len(invalid_cves) : invalid_cves[k] = words[i]
        THEN "[invalid-cve-removed]" ELSE words[i]]

InvalidCves(words, outcome) ==
    IF validate_cve_exists(outcome) THEN <<>> ELSE SelectSeq(words, IsCve)

\* lines 360-364: write back only if something changed
SecurityWriteBack(security_state, metadata, filtered_body, bias_filtered, cve_filtered) ==
    IF bias_filtered > 0 \/ cve_filtered > 0
    THEN [security_state EXCEPT
              !["security_analysis"] = ReconstructAnalysis(metadata, filtered_body)]
    ELSE security_state

SecurityRewrite(security_state, parsed_doc, validated, bias, invalid_cves) ==
    [state |-> SecurityWriteBack(
                   security_state, validated.metadata,
                   WordsBody(parsed_doc.body, RemoveCves(bias.text, invalid_cves)),
                   bias.count, Len(invalid_cves)),
     trace |-> GuardTrace(
                   "filtered",
                   WordsBody(parsed_doc.body, RemoveCves(bias.text, invalid_cves)),
                   bias.count, 0, Len(invalid_cves))]

SecurityFiltered(security_state, parsed_doc, bias, outcome) ==
    SecurityRewrite(security_state, parsed_doc,
                    validate_analysis(parsed_doc.metadata, parsed_doc.body,
                                      "security_agent", TRUE),
                    bias, InvalidCves(bias.text, outcome))

SecurityFiltering(security_state, parsed_doc, loaded, outcome) ==
    SecurityFiltered(security_state, parsed_doc,
                     FilterBiasConfigured(BodyWords(parsed_doc.body), loaded),
                     outcome)

SecurityOutcome(security_state, stage, run) ==
    /\ gTrace' = StageTrace(stage, run.trace)
    /\ gState' = IF stage # "filtered" THEN security_state ELSE run.state

SecurityCallback(security_state, analysis, parsed_doc) ==
    SecurityOutcome(security_state, GuardStage(analysis, parsed_doc),
                    SecurityFiltering(security_state, parsed_doc, gBiasConfig, gLookup))

security_agent_after_agent ==
    /\ gPc = "pending"
    /\ gProducer = "security_agent"
    /\ SecurityCallback(gState, gState["security_analysis"],
                        ParseAnalysis(gState["security_analysis"]))
    /\ gPc' = "done"
    /\ UNCHANGED <<gProducer, gBefore, gBiasConfig, gLookup>>

CarbonBias(body, green) ==
    [bias |-> filter_content(green.text, bias_patterns), green_count |-> green.count,
     body |-> body]

CarbonTrace(run) ==
    GuardTrace("filtered", WordsBody(run.body, run.bias.text), run.bias.count,
               run.green_count, 0)

CarbonFiltering(parsed_doc) ==
    CarbonTrace(CarbonBias(parsed_doc.body,
                           filter_content(BodyWords(parsed_doc.body),
                                          greenwashing_patterns)))

CarbonCallback(analysis, parsed_doc) ==
    gTrace' = StageTrace(GuardStage(analysis, parsed_doc), CarbonFiltering(parsed_doc))

\* the callback returns None and assigns nothing to the state
carbon_agent_after_agent ==
    /\ gPc = "pending"
    /\ gProducer = "carbon_emission_agent"
    /\ CarbonCallback(gState["carbon_emission_analysis"],
                      ParseAnalysis(gState["carbon_emission_analysis"]))
    /\ gPc' = "done"
    /\ UNCHANGED <<gProducer, gBefore, gState, gBiasConfig, gLookup>>

QualityTrace(body, bias) ==
    GuardTrace("filtered", WordsBody(body, bias.text), bias.count, 0, 0)

QualityFiltering(parsed_doc) ==
    QualityTrace(parsed_doc.body,
                 filter_content(BodyWords(parsed_doc.body), quality_bias_patterns))

QualityCallback(analysis, parsed_doc) ==
    gTrace' = StageTrace(GuardStage(analysis, parsed_doc), QualityFiltering(parsed_doc))

\* the callback returns None and assigns nothing to the state
quality_agent_after_agent ==
    /\ gPc = "pending"
    /\ gProducer = "code_quality_agent"
    /\ QualityCallback(gState["code_quality_analysis"],
                       ParseAnalysis(gState["code_quality_analysis"]))
    /\ gPc' = "done"
    /\ UNCHANGED <<gProducer, gBefore, gState, gBiasConfig, gLookup>>

(***************************************************************************)
(* Inputs of the guardrail model: the producer, its document (none, empty, *)
(* a body alone, or one of the front matter blocks with a body of up to    *)
(* MaxGuardLines lines), the bias configuration and the lookup's outcome.  *)
(***************************************************************************)
MaxGuardLines == 2

GuardProducers == {"security_agent", "carbon_emission_agent", "code_quality_agent"}

GuardKeys == {StateKey(p) : p \in GuardProducers}

GuardFrontmatters == {
    <<Ln("agent", "security_agent"), Ln("summary", "'x'"),
      Ln("total_issues", "'3'"), Ln("confidence", "0.5")>>,
    <<Ln("agent", "security_agent")>>,
    <<Ln("key", "[unclosed")>>,
    <<Ln("", "[]")>>,
    <<Ln("date", "2023-02-30")>>
}

GuardBodyLines == {
    HeadingLine,
    Ln("", "text"),
    Ln("", "stupid stupid code"),
    Ln("", "dramatically reduce carbon"),
    Ln("", "see CVE-2099-9999")
}

GuardBodies == UNION {[1..n -> GuardBodyLines] : n \in 1..MaxGuardLines}

GuardDocuments ==
    {NoneText, <<Blank>>}
        \cup {b \o <<Blank>> : b \in GuardBodies}
        \cup {<<Delim>> \o f \o <<Delim>> \o b \o <<Blank>> :
                 f \in GuardFrontmatters, b \in GuardBodies}

OtherDocument == <<Ln("", "text"), Blank>>

InitGuard ==
    /\ gProducer \in GuardProducers
    /\ \E d \in GuardDocuments :
           gBefore = [k \in GuardKeys |->
                         IF k = StateKey(gProducer) THEN d ELSE OtherDocument]
    /\ gState = gBefore
    /\ gBiasConfig \in BOOLEAN
    /\ gLookup \in LookupOutcomes
    /\ gPc = "pending"
    /\ gTrace = NoGuardTrace

IdleGuard ==
    /\ gProducer = "security_agent"
    /\ gBefore = [k \in GuardKeys |-> NoneText]
    /\ gState = gBefore
    /\ gBiasConfig = FALSE
    /\ gLookup = "found"
    /\ gPc = "idle"
    /\ gTrace = NoGuardTrace

(***************************************************************************)
(* compute_confidence and adjust_severity_by_confidence of                 *)
(* util/security_enrichment.py applied to inputs of their own: a finding   *)
(* with each evidence field absent, None, empty or filled and a declared   *)
(* confidence from below 0 to above 1, or a severity with a confidence.    *)
(***************************************************************************)
DeclaredConfidences == {NoNumber, 0 - 50, 0, 3, 5, 10, 55, 90, 98, 100, 250}

EvidenceFinding(confidence, file_path, line, code_snippet, evidence) ==
    Finding(Absent, Absent, Absent, Absent, Absent, Absent, Absent, "high",
            confidence, file_path, line, code_snippet, evidence)

EvidenceFindings ==
    {EvidenceFinding(c, p, l, s, e) :
        c \in DeclaredConfidences,
        p \in {Absent, None, "", "app.py"},
        l \in {NoNumber, 0, 1, 42},
        s \in {Absent, None, "", "x=1", LongA},
        e \in {Absent, None, "x=1", "no security logging detected"}}

DefaultFinding == EvidenceFinding(NoNumber, Absent, NoNumber, Absent, Absent)

Severities ==
    {"low", "medium", "high", "critical", "HIGH", "CRITICAL", "info", "", None}

Confidences == {0, 5, 10, 24, 25, 30, 44, 45, 55, 90, 98}

InitEnrich ==
    /\ \/ /\ eFinding \in EvidenceFindings
          /\ eSeverity = "high"
          /\ eConfidence = DefaultConfidence
       \/ /\ eFinding = DefaultFinding
          /\ eSeverity \in Severities
          /\ eConfidence \in Confidences
    /\ ePc = "input"
    /\ eComputed = NoNumber
    /\ eAdjusted = None

ComputeConfidence ==
    /\ ePc = "input"
    /\ eComputed' = compute_confidence(eFinding)
    /\ ePc' = "computed"
    /\ UNCHANGED <<eFinding, eSeverity, eConfidence, eAdjusted>>

AdjustSeverity ==
    /\ ePc = "computed"
    /\ eAdjusted' = adjust_severity_by_confidence(eSeverity, eConfidence)
    /\ ePc' = "adjusted"
    /\ UNCHANGED <<eFinding, eSeverity, eConfidence, eComputed>>

IdleEnrich ==
    /\ eFinding = DefaultFinding
    /\ eSeverity = "high"
    /\ eConfidence = DefaultConfidence
    /\ ePc = "idle"
    /\ eComputed = NoNumber
    /\ eAdjusted = None

(***************************************************************************)
(* Report synthesis: report_synthesizer_before_agent (lines 46-71), the    *)
(* agent's answer stored under output_key final_report (line 393) and      *)
(* report_synthesizer_after_agent (lines 74-151) of                        *)
(* report_synthesizer_agent/agent.py, with parse_json_safe of              *)
(* util/callbacks.py (lines 463-486).                                      *)
(*                                                                         *)
(* A document of the session state is [kind, fence, listed, mentioned]:    *)
(* kind "absent" for a missing or empty value, "markdown" for a front      *)
(* matter document, "json" for a JSON object and "list" for a JSON array;  *)
(* fence tells whether a code fence encloses it; listed holds the cve      *)
(* values of the entries of its vulnerabilities list (of the array itself  *)
(* for a list), mentioned the identifiers that occur elsewhere in its      *)
(* text.  A report is [kind, sections, placeholders, cves]: the titles     *)
(* that occur on a line after a # sign, the categories for which it says   *)
(* that no analysis is available, and the identifiers it mentions.  The    *)
(* agent's answer is the language model's: any report.                     *)
(***************************************************************************)
required_artifacts ==
    <<"security_analysis", "code_quality_analysis", "engineering_practices_analysis", "carbon_emission_analysis">>

required_sections ==
    <<"Executive Summary", "Security", "Code Quality", "Engineering Practices", "Environmental Impact", "Recommendations", "Next Steps">>

ArtifactKeys == {required_artifacts[i] : i \in DOMAIN required_artifacts}

SectionTitles == {required_sections[i] : i \in DOMAIN required_sections}

StateDoc(kind, fence, listed, mentioned) ==
    [kind |-> kind, fence |-> fence, listed |-> listed, mentioned |-> mentioned]

AbsentDoc == StateDoc("absent", FALSE, {}, {})

Report(kind, sections, placeholders, cves) ==
    [kind |-> kind, sections |-> sections, placeholders |-> placeholders, cves |-> cves]

EmptyReport == Report("empty", {}, {}, {})

\* not artifact_value (line 62), not text (line 80)
IsFalsy(doc) == doc.kind \in {"absent", "empty"}

\* parse_json_safe: the fence goes, json.loads gives the object or the
\* array, and any exception gives None.
JsonValue(ty, vulnerabilities) == [ty |-> ty, vulnerabilities |-> vulnerabilities]

parse_json_safe(doc) ==
    CASE doc.kind = "json" -> JsonValue("dict", doc.listed)
      [] doc.kind = "list" -> JsonValue("list", doc.listed)
      [] OTHER -> JsonValue("none", {})

\* Lines 121-126.  A non-empty array has no get: AttributeError.
SourceRaises(security_analysis) ==
    security_analysis.ty = "list" /\ security_analysis.vulnerabilities # {}

source_cves(security_analysis) ==
    IF security_analysis.ty = "dict" THEN security_analysis.vulnerabilities ELSE {}

\* Lines 90-104: the titles no line of the text carries after a # sign.
missing_sections(text) == SelectSeq(required_sections, LAMBDA s : s \notin text.sections)

ReportTrace(stage, missing_artifacts, missing, hallucinated_cves, bias_filtered) ==
    [stage |-> stage, missing_artifacts |-> missing_artifacts, missing_sections |-> missing,
     hallucinated_cves |-> hallucinated_cves, bias_filtered |-> bias_filtered]

NoReportTrace == ReportTrace("none", <<>>, <<>>, {}, 0)

\* filter_bias returns a pair, which never equals the text (lines 136-137).
ReportBiasFiltered == 1

hallucinated_cves(text, security_analysis) == text.cves \ source_cves(security_analysis)

AfterAgentTrace(before, text, security_analysis) ==
    IF IsFalsy(text) THEN [before EXCEPT !.stage = "no_report"]
    ELSE IF text.kind = "json" THEN [before EXCEPT !.stage = "json_report"]
    ELSE IF SourceRaises(security_analysis) THEN [before EXCEPT !.stage = "error"]
    ELSE ReportTrace("validated", before.missing_artifacts, missing_sections(text),
                     hallucinated_cves(text, security_analysis), ReportBiasFiltered)

report_synthesizer_before_agent ==
    /\ rPc = "start"
    /\ rTrace' = [rTrace EXCEPT
            !.stage = "before",
            !.missing_artifacts = SelectSeq(required_artifacts, LAMBDA k : IsFalsy(rState[k]))]
    /\ rPc' = "before"
    /\ UNCHANGED <<rState, rReport>>

report_synthesizer_after_agent ==
    /\ rPc = "answered"
    /\ rTrace' = AfterAgentTrace(rTrace, rReport, parse_json_safe(rState["security_analysis"]))
    /\ rPc' = "done"
    /\ UNCHANGED <<rState, rReport>>

(***************************************************************************)
(* Inputs of the report model: the four documents of the state, the        *)
(* security document in each of its forms over the identifiers of          *)
(* SourceIds, and the agent's answer over the identifiers of ReportIds.    *)
(***************************************************************************)
SourceIds == {"CVE-2023-0001"}

ReportIds == {"CVE-2023-0001", "CVE-2099-9999"}

SecurityDocs ==
    {AbsentDoc}
    \cup {StateDoc("markdown", FALSE, {}, m) : m \in SUBSET SourceIds}
    \cup {StateDoc("json", f, l, m) : f \in BOOLEAN, l \in SUBSET SourceIds, m \in SUBSET SourceIds}
    \cup {StateDoc("list", FALSE, l, {}) : l \in SUBSET SourceIds}

OtherDocs == {AbsentDoc, StateDoc("markdown", FALSE, {}, {})}

ReportStates ==
    {s \in [ArtifactKeys -> SecurityDocs \cup OtherDocs] :
        /\ s["security_analysis"] \in SecurityDocs
        /\ \A k \in ArtifactKeys \ {"security_analysis"} : s[k] \in OtherDocs}

SectionOf(key) ==
    CASE key = "security_analysis" -> "Security"
      [] key = "code_quality_analysis" -> "Code Quality"
      [] key = "engineering_practices_analysis" -> "Engineering Practices"
      [] key = "carbon_emission_analysis" -> "Environmental Impact"

AbsentSections(session_state) == {SectionOf(k) : k \in {a \in ArtifactKeys : IsFalsy(session_state[a])}}

\* The language model's answer: nothing, a JSON text, or a markdown report
\* with any of the titles, with or without the placeholders for the
\* documents that are absent, and any of the identifiers.
Answers(session_state) ==
    {EmptyReport, Report("json", {}, {}, {})}
    \cup UNION {{Report("markdown", s, p, c) : p \in {{}, AbsentSections(session_state) \cap s},
                                              c \in SUBSET ReportIds} : s \in SUBSET SectionTitles}

SynthesizeReport ==
    /\ rPc = "before"
    /\ \E answer \in Answers(rState) : rReport' = answer
    /\ rPc' = "answered"
    /\ UNCHANGED <<rState, rTrace>>

InitReport ==
    /\ rState \in ReportStates
    /\ rReport = EmptyReport
    /\ rPc = "start"
    /\ rTrace = NoReportTrace

IdleReport ==
    /\ rState = [k \in ArtifactKeys |-> AbsentDoc]
    /\ rReport = EmptyReport
    /\ rPc = "idle"
    /\ rTrace = NoReportTrace

(***************************************************************************)
(* The review pipeline, orchestrator_agent/agent.py lines 176-251: the     *)
(* SequentialAgent runs its sub-agents in order for a session, and the     *)
(* sessions of one process run their pipelines interleaved.  A stage is    *)
(* one sub-agent's run with its callbacks and tool calls.                  *)
(*                                                                         *)
(* What a language model agent decides (whether it answers, whether it     *)
(* calls its tool) is a choice of the stage.  Every callback runs inside   *)
(* a CallbackTimer (util/metrics.py lines 331-361), which on exit adds to  *)
(* the entry <agent>_<callback> of the process-wide MetricsCollector       *)
(* (lines 147-191, 322-327).  pEvents is the order of a session's stage    *)
(* starts and writes; pAccess tells which session touched which mutable    *)
(* object.                                                                 *)
(***************************************************************************)
PipelineSessions == {"sess-1", "sess-2"}

AnalysisAgents ==
    <<"security_agent", "code_quality_agent", "engineering_practices_agent", "carbon_emission_agent">>

\* _create_analysis_pipeline nested in _create_github_pr_review_pipeline
PipelineStages ==
    <<"github_fetcher_agent">> \o AnalysisAgents
        \o <<"artifact_saver_agent", "report_synthesizer_agent", "report_saver_agent">>

IsAnalysisAgent(agent) == \E i \in DOMAIN AnalysisAgents : AnalysisAgents[i] = agent

\* the callbacks an agent registers, each timed under <agent>_<callback>
CallbackKeys(agent) ==
    CASE agent \in {"security_agent", "code_quality_agent"} ->
             {agent \o "_before_model", agent \o "_after_tool", agent \o "_after_agent"}
      [] agent \in {"engineering_practices_agent", "carbon_emission_agent"} ->
             {agent \o "_before_model", agent \o "_after_agent"}
      [] agent = "report_synthesizer_agent" ->
             {agent \o "_before_agent", agent \o "_after_agent"}
      [] OTHER -> {}

AllCallbackKeys == UNION {CallbackKeys(PipelineStages[i]) : i \in DOMAIN PipelineStages}

Event(stage, kind, key) == [stage |-> stage, kind |-> kind, key |-> key]

Access(kind, key, session) == [kind |-> kind, key |-> key, session |-> session]

\* record_callback_execution: the entry of the key is created if missing
\* and its execution_count goes up by one
record_callback_execution(callback_metrics, keys) ==
    [k \in DOMAIN callback_metrics |->
        IF k \in keys THEN callback_metrics[k] + 1 ELSE callback_metrics[k]]

MetricsAccess(keys, s) == {Access("callback_metrics", k, s) : k \in keys}

CurrentStage(s) == PipelineStages[pStage[s]]

StageRuns(s, agent) == pStage[s] \in DOMAIN PipelineStages /\ CurrentStage(s) = agent

\* the stage's start, its callbacks' metrics and the step to the next stage
StageDone(s, agent, writes, accesses) ==
    /\ pStage' = [pStage EXCEPT ![s] = @ + 1]
    /\ pEvents' = [pEvents EXCEPT ![s] = @ \o <<Event(agent, "ran", "")>> \o writes]
    /\ pMetrics' = record_callback_execution(pMetrics, CallbackKeys(agent))
    /\ pAccess' = pAccess \cup accesses \cup MetricsAccess(CallbackKeys(agent), s)

\* github_fetcher_agent puts the pull request's files into the state
FetchStage(s) ==
    /\ StageRuns(s, "github_fetcher_agent")
    /\ StageDone(s, "github_fetcher_agent", <<>>, {Access("state", s, s)})
    /\ UNCHANGED <<pState, pArtifacts, pReports>>

\* an analysis agent: its answer, if it gives one, goes to its output_key
AnalysisStage(s) ==
    \E agent \in {AnalysisAgents[i] : i \in DOMAIN AnalysisAgents}, answers \in BOOLEAN :
        /\ StageRuns(s, agent)
        /\ pState' = [pState EXCEPT ![s] = IF answers THEN @ \cup {StateKey(agent)} ELSE @]
        /\ StageDone(s, agent,
                     IF answers THEN <<Event(agent, "state", StateKey(agent))>> ELSE <<>>,
                     {Access("state", s, s)})
        /\ UNCHANGED <<pArtifacts, pReports>>

\* the documents save_all_analysis_artifacts finds in the state, in order
DocumentsToSave(session_state) ==
    SelectSeq(AnalysisAgents, LAMBDA a : StateKey(a) \in session_state)

ArtifactEvents(agents) ==
    [i \in DOMAIN agents |-> Event("artifact_saver_agent", "artifact", StateKey(agents[i]))]

ArtifactPath(s, agent) == s \o "/" \o agent \o "_analysis.json"

ArtifactPaths(s, agents) == {ArtifactPath(s, agents[i]) : i \in DOMAIN agents}

\* artifact_saver_agent: the agent calls save_all_analysis_artifacts or
\* not, and the saves of a call succeed or fail
ArtifactSaverStage(s) ==
    \E saving \in {"not_called", "saved", "failed"} :
        /\ StageRuns(s, "artifact_saver_agent")
        /\ pArtifacts' = IF saving = "saved"
                         THEN pArtifacts \cup ArtifactPaths(s, DocumentsToSave(pState[s]))
                         ELSE pArtifacts
        /\ StageDone(s, "artifact_saver_agent",
                     IF saving = "saved" THEN ArtifactEvents(DocumentsToSave(pState[s])) ELSE <<>>,
                     {Access("state", s, s)}
                         \cup (IF saving = "saved"
                               THEN {Access("artifact", path, s) : path \in ArtifactPaths(s, DocumentsToSave(pState[s]))}
                               ELSE {}))
        /\ UNCHANGED <<pState, pReports>>

ReportPath(s) == "reports/" \o s \o "_report.md"

\* report_synthesizer_agent: it may call its tool save_final_report with
\* the report, and its answer, if it gives one, goes to final_report
ReportSynthesizerStage(s) ==
    \E calls_tool \in BOOLEAN, answers \in BOOLEAN :
        /\ StageRuns(s, "report_synthesizer_agent")
        /\ pReports' = IF calls_tool THEN pReports \cup {ReportPath(s)} ELSE pReports
        /\ pState' = [pState EXCEPT ![s] = IF answers THEN @ \cup {"final_report"} ELSE @]
        /\ StageDone(s, "report_synthesizer_agent",
                     (IF calls_tool THEN <<Event("report_synthesizer_agent", "report", ReportPath(s))>> ELSE <<>>)
                         \o (IF answers THEN <<Event("report_synthesizer_agent", "state", "final_report")>> ELSE <<>>),
                     {Access("state", s, s)}
                         \cup (IF calls_tool THEN {Access("report", ReportPath(s), s)} ELSE {}))
        /\ UNCHANGED pArtifacts

\* report_saver_agent: save_final_report_from_state, if the agent calls
\* it, saves the final_report of the state, and the save may fail
ReportSaverStage(s) ==
    \E saving \in {"not_called", "saved", "failed"} :
        /\ StageRuns(s, "report_saver_agent")
        /\ saving = "saved" => "final_report" \in pState[s]
        /\ pReports' = IF saving = "saved" THEN pReports \cup {ReportPath(s)} ELSE pReports
        /\ StageDone(s, "report_saver_agent",
                     IF saving = "saved" THEN <<Event("report_saver_agent", "report", ReportPath(s))>> ELSE <<>>,
                     {Access("state", s, s)}
                         \cup (IF saving = "saved" THEN {Access("report", ReportPath(s), s)} ELSE {}))
        /\ UNCHANGED <<pState, pArtifacts>>

RunFetch == \E s \in PipelineSessions : FetchStage(s)

RunAnalysis == \E s \in PipelineSessions : AnalysisStage(s)

RunArtifactSaver == \E s \in PipelineSessions : ArtifactSaverStage(s)

RunReportSynthesizer == \E s \in PipelineSessions : ReportSynthesizerStage(s)

RunReportSaver == \E s \in PipelineSessions : ReportSaverStage(s)

InitPipeline ==
    /\ pStage = [s \in PipelineSessions |-> 1]
    /\ pState = [s \in PipelineSessions |-> {}]
    /\ pArtifacts = {}
    /\ pReports = {}
    /\ pEvents = [s \in PipelineSessions |-> <<>>]
    /\ pMetrics = [k \in AllCallbackKeys |-> 0]
    /\ pAccess = {}

IdlePipeline ==
    /\ pStage = [s \in PipelineSessions |-> 0]
    /\ pState = [s \in PipelineSessions |-> {}]
    /\ pArtifacts = {}
    /\ pReports = {}
    /\ pEvents = [s \in PipelineSessions |-> <<>>]
    /\ pMetrics = [k \in AllCallbackKeys |-> 0]
    /\ pAccess = {}

(***************************************************************************)
(* save_all_analysis_artifacts(tool_context), artifact_saver_agent/agent.py*)
(* lines 39-76: the batch save of the four producer documents of one       *)
(* session.                                                                *)
(***************************************************************************)
\* lines 49-54
analyses == <<
    [state_key |-> "security_analysis", agent_name |-> "security_agent"],
    [state_key |-> "code_quality_analysis", agent_name |-> "code_quality_agent"],
    [state_key |-> "engineering_practices_analysis", agent_name |-> "engineering_practices_agent"],
    [state_key |-> "carbon_emission_analysis", agent_name |-> "carbon_emission_agent"]
>>

total_expected == Len(analyses)

\* tool_context.state.get(state_key) and "if analysis_data:" (lines 57-58)
HasAnalysis(session_state, a) ==
    a.state_key \in DOMAIN session_state /\ session_state[a.state_key] # <<>>

\* the documents the loop hands to save_analysis_result, in order
AttemptedSaves(session_state) ==
    SelectSeq(analyses, LAMBDA a : HasAnalysis(session_state, a))

\* save_analysis_result, lines 116-149: after the file is written the
\* statistics of the confidence scores can raise
RaisesAfterWrite(text) ==
    JsonLoads(text) # "JSONDecodeError" /\ ConfidenceStatsRaise(JsonLoads(text))

\* the status save_analysis_result returns (lines 191-209)
SaveStatus(d, fault) ==
    IF fault = "none" /\ ~RaisesAfterWrite(Persisted(d)) THEN "success" ELSE "error"

BatchDetail(a, d, fault) ==
    [agent |-> a.agent_name, status |-> SaveStatus(d, fault)]

\* line 61: every result is appended, whatever its status
BatchDetails(session_state, attempted, faults) ==
    [i \in DOMAIN attempted |->
        BatchDetail(attempted[i], session_state[attempted[i].state_key],
                    faults[attempted[i].agent_name])]

\* lines 71-76
BatchReturn(results) ==
    [status |-> "success", saved_count |-> Len(results),
     total_expected |-> total_expected, details |-> results]

NoBatchReturn ==
    [status |-> "none", saved_count |-> 0, total_expected |-> 0, details |-> <<>>]

\* STEP 1 of each save (line 95): the state holds the sanitised text
BatchState(session_state, attempted) ==
    [k \in DOMAIN session_state |->
        IF \E i \in DOMAIN attempted : attempted[i].state_key = k
        THEN Persisted(session_state[k]) ELSE session_state[k]]

\* STEP 2 (lines 99-103): the saves whose save_artifact did not raise
BatchArtifacts(attempted, faults) ==
    {attempted[i].agent_name :
        i \in {j \in DOMAIN attempted : faults[attempted[j].agent_name] # "adk"}}

\* STEP 3 (lines 108-186): the saves whose file was written
BatchFiles(attempted, faults) ==
    {attempted[i].agent_name :
        i \in {j \in DOMAIN attempted : faults[attempted[j].agent_name] \in {"none"}}}

BatchSave(session_state, attempted, faults) ==
    /\ bState' = BatchState(session_state, attempted)
    /\ bArtifacts' = BatchArtifacts(attempted, faults)
    /\ bFiles' = BatchFiles(attempted, faults)
    /\ bReturn' = BatchReturn(BatchDetails(session_state, attempted, faults))

save_all_analysis_artifacts ==
    /\ bPc = "pending"
    /\ BatchSave(bState, AttemptedSaves(bState), bFaults)
    /\ bPc' = "done"
    /\ UNCHANGED <<bBefore, bFaults>>

(***************************************************************************)
(* Inputs of the batch save: for each of the four keys no entry, an empty  *)
(* text or a document, and for each producer the write that raises.        *)
(***************************************************************************)
BatchKeys == {analyses[i].state_key : i \in DOMAIN analyses}

BatchAgents == {analyses[i].agent_name : i \in DOMAIN analyses}

BatchDocs == {<<>>, <<"T">>, <<"Jc">>}

BatchStates == UNION {[ks -> BatchDocs] : ks \in SUBSET BatchKeys}

InitBatch ==
    /\ bBefore \in BatchStates
    /\ bState = bBefore
    /\ bFaults \in [BatchAgents -> Faults]
    /\ bPc = "pending"
    /\ bArtifacts = {}
    /\ bFiles = {}
    /\ bReturn = NoBatchReturn

IdleBatch ==
    /\ bBefore = EmptyMap
    /\ bState = bBefore
    /\ bFaults = [a \in BatchAgents |-> "none"]
    /\ bPc = "idle"
    /\ bArtifacts = {}
    /\ bFiles = {}
    /\ bReturn = NoBatchReturn

(***************************************************************************)
(* Specifications, one per component.                                      *)
(***************************************************************************)
NextStore ==
    \/ SaveStep /\ UNCHANGED <<codecVars, secVars, filterVars, validVars, guardVars, enrichVars, reportVars, pipelineVars, batchVars>>
    \/ LoadStep /\ UNCHANGED <<codecVars, secVars, filterVars, validVars, guardVars, enrichVars, reportVars, pipelineVars, batchVars>>

StartStore ==
    InitStore /\ IdleCodec /\ IdleSec /\ IdleFilter /\ IdleValid /\ IdleGuard /\ IdleEnrich /\ IdleReport /\ IdlePipeline /\ IdleBatch

SpecStore == StartStore /\ [][NextStore]_vars

NextCodec ==
    \/ Parse /\ UNCHANGED <<storeVars, secVars, filterVars, validVars, guardVars, enrichVars, reportVars, pipelineVars, batchVars>>
    \/ Reconstruct /\ UNCHANGED <<storeVars, secVars, filterVars, validVars, guardVars, enrichVars, reportVars, pipelineVars, batchVars>>
    \/ Reparse /\ UNCHANGED <<storeVars, secVars, filterVars, validVars, guardVars, enrichVars, reportVars, pipelineVars, batchVars>>

StartCodec ==
    InitCodec /\ InitStore /\ IdleSec /\ IdleFilter /\ IdleValid /\ IdleGuard /\ IdleEnrich /\ IdleReport /\ IdlePipeline /\ IdleBatch

SpecCodec == StartCodec /\ [][NextCodec]_vars

NextSec == security_agent_after_tool /\ UNCHANGED <<storeVars, codecVars, filterVars, validVars, guardVars, enrichVars, reportVars, pipelineVars, batchVars>>

StartSec ==
    InitSec /\ InitStore /\ IdleCodec /\ IdleFilter /\ IdleValid /\ IdleGuard /\ IdleEnrich /\ IdleReport /\ IdlePipeline /\ IdleBatch

SpecSec == StartSec /\ [][NextSec]_vars

NextFilter ==
    \/ FirstPass /\ UNCHANGED <<storeVars, codecVars, secVars, validVars, guardVars, enrichVars, reportVars, pipelineVars, batchVars>>
    \/ SecondPass /\ UNCHANGED <<storeVars, codecVars, secVars, validVars, guardVars, enrichVars, reportVars, pipelineVars, batchVars>>

StartFilter ==
    InitFilter /\ InitStore /\ IdleCodec /\ IdleSec /\ IdleValid /\ IdleGuard /\ IdleEnrich /\ IdleReport /\ IdlePipeline /\ IdleBatch

SpecFilter == StartFilter /\ [][NextFilter]_vars

NextValid == CallValidate /\ UNCHANGED <<storeVars, codecVars, secVars, filterVars, guardVars, enrichVars, reportVars, pipelineVars, batchVars>>

StartValid ==
    InitValid /\ InitStore /\ IdleCodec /\ IdleSec /\ IdleFilter /\ IdleGuard /\ IdleEnrich /\ IdleReport /\ IdlePipeline /\ IdleBatch

SpecValid == StartValid /\ [][NextValid]_vars

NextGuard ==
    \/ security_agent_after_agent /\ UNCHANGED <<storeVars, codecVars, secVars, filterVars, validVars, enrichVars, reportVars, pipelineVars, batchVars>>
    \/ carbon_agent_after_agent /\ UNCHANGED <<storeVars, codecVars, secVars, filterVars, validVars, enrichVars, reportVars, pipelineVars, batchVars>>
    \/ quality_agent_after_agent /\ UNCHANGED <<storeVars, codecVars, secVars, filterVars, validVars, enrichVars, reportVars, pipelineVars, batchVars>>

StartGuard ==
    InitGuard /\ InitStore /\ IdleCodec /\ IdleSec /\ IdleFilter /\ IdleValid /\ IdleEnrich /\ IdleReport /\ IdlePipeline /\ IdleBatch

SpecGuard == StartGuard /\ [][NextGuard]_vars

NextEnrich ==
    \/ ComputeConfidence /\ UNCHANGED <<storeVars, codecVars, secVars, filterVars, validVars, guardVars, reportVars, pipelineVars, batchVars>>
    \/ AdjustSeverity /\ UNCHANGED <<storeVars, codecVars, secVars, filterVars, validVars, guardVars, reportVars, pipelineVars, batchVars>>

StartEnrich ==
    InitEnrich /\ InitStore /\ IdleCodec /\ IdleSec /\ IdleFilter /\ IdleValid /\ IdleGuard /\ IdleReport /\ IdlePipeline /\ IdleBatch

SpecEnrich == StartEnrich /\ [][NextEnrich]_vars

NextReport ==
    \/ report_synthesizer_before_agent /\ UNCHANGED <<storeVars, codecVars, secVars, filterVars, validVars, guardVars, enrichVars, pipelineVars, batchVars>>
    \/ SynthesizeReport /\ UNCHANGED <<storeVars, codecVars, secVars, filterVars, validVars, guardVars, enrichVars, pipelineVars, batchVars>>
    \/ report_synthesizer_after_agent /\ UNCHANGED <<storeVars, codecVars, secVars, filterVars, validVars, guardVars, enrichVars, pipelineVars, batchVars>>

StartReport ==
    InitReport /\ InitStore /\ IdleCodec /\ IdleSec /\ IdleFilter /\ IdleValid /\ IdleGuard /\ IdleEnrich /\ IdlePipeline /\ IdleBatch

SpecReport == StartReport /\ [][NextReport]_vars

NextPipeline ==
    \/ RunFetch /\ UNCHANGED <<storeVars, codecVars, secVars, filterVars, validVars, guardVars, enrichVars, reportVars, batchVars>>
    \/ RunAnalysis /\ UNCHANGED <<storeVars, codecVars, secVars, filterVars, validVars, guardVars, enrichVars, reportVars, batchVars>>
    \/ RunArtifactSaver /\ UNCHANGED <<storeVars, codecVars, secVars, filterVars, validVars, guardVars, enrichVars, reportVars, batchVars>>
    \/ RunReportSynthesizer /\ UNCHANGED <<storeVars, codecVars, secVars, filterVars, validVars, guardVars, enrichVars, reportVars, batchVars>>
    \/ RunReportSaver /\ UNCHANGED <<storeVars, codecVars, secVars, filterVars, validVars, guardVars, enrichVars, reportVars, batchVars>>

StartPipeline ==
    InitPipeline /\ InitStore /\ IdleCodec /\ IdleSec /\ IdleFilter /\ IdleValid /\ IdleGuard /\ IdleEnrich /\ IdleReport /\ IdleBatch

SpecPipeline == StartPipeline /\ [][NextPipeline]_vars

NextBatch == save_all_analysis_artifacts /\ UNCHANGED <<storeVars, codecVars, secVars, filterVars, validVars, guardVars, enrichVars, reportVars, pipelineVars>>

StartBatch ==
    InitBatch /\ InitStore /\ IdleCodec /\ IdleSec /\ IdleFilter /\ IdleValid /\ IdleGuard /\ IdleEnrich /\ IdleReport /\ IdlePipeline

SpecBatch == StartBatch /\ [][NextBatch]_vars

(***************************************************************************)
(* Claims about the artifact store, checked under SpecStore.               *)
(***************************************************************************)
SavedFile == ArtifactFilename(lastSave.agent)

\* C1: artifact round trip.  After save_analysis_result(d, p) has returned
\* success in session s, a load for session s returns a results mapping that
\* holds p, mapped to exactly the text the save persisted.
C1_ArtifactRoundTrip ==
    (/\ loadResult # NoResult
     /\ saveResult.status = "success"
     /\ loadResult.session_id = lastSave.session)
        => /\ lastSave.agent \in DOMAIN loadResult.results
           /\ loadResult.results[lastSave.agent]
                  = state[lastSave.session][StateKey(lastSave.agent)]

\* C3: independent failure domains.  When only the write to the ADK artifact
\* store fails, the write to the session directory on disk still completes;
\* when only the disk write fails, the ADK artifact is still there.
C3_IndependentFailureDomains ==
    lastSave # NoResult =>
        /\ lastSave.fault = "adk" =>
               /\ lastSave.session \in DOMAIN disk
               /\ SavedFile \in DOMAIN disk[lastSave.session]
               /\ disk[lastSave.session][SavedFile]
                      = DiskText(Persisted(lastSave.doc))
        /\ lastSave.fault \in {"mkdir", "write"} =>
               /\ SavedFile \in DOMAIN adk[lastSave.session]
               /\ adk[lastSave.session][SavedFile].text = Persisted(lastSave.doc)

(***************************************************************************)
(* Claims about the document codec, checked under SpecCodec.               *)
(***************************************************************************)
Untagged(metadata) ==
    \A i \in 1..Len(metadata) : metadata[i].k \notin {"parse_error", "parse_warning"}

FirstBlock == FrontmatterMatch(rawText)

FirstLoad == YamlSafeLoad(FirstBlock.yaml)

\* C2: a non-mapping YAML block is always tagged.  When the block between the
\* delimiters loads to a list or a scalar, parse_analysis returns the metadata
\* agent unknown, parse_warning yaml_not_dict; metadata with neither
\* parse_error nor parse_warning is returned only when the block loaded to a
\* mapping.
C2_NonMappingTagged ==
    (pc = "parsed" /\ rawText # NoneText) =>
        /\ (FirstBlock.matched
                /\ FirstLoad.kind \in {"list", "scalar", "falsy_scalar", "null"})
               => parsed.metadata = Tagged("parse_warning", StrV("yaml_not_dict"))
        /\ Untagged(parsed.metadata)
               => (FirstBlock.matched /\ FirstLoad.kind = "dict")

\* C9: codec round trip.  For a text whose parse carries neither parse_error
\* nor parse_warning, parsing the reconstruction of (metadata, body) returns
\* the metadata without its bookkeeping keys, in the same key order, and the
\* same body.
C9_CodecRoundTrip ==
    (pc = "reparsed" /\ Untagged(parsed.metadata)) =>
        /\ ~reparsed.raised
        /\ reparsed.metadata = CleanMetadata(parsed.metadata)
        /\ reparsed.body = parsed.body

\* a round trip through a quoted numeric string, a bookkeeping key that the
\* document itself carried, and a body that holds a delimiter line
C9_Witness ==
    /\ pc = "reparsed"
    /\ Untagged(parsed.metadata)
    /\ parsed.metadata = <<Entry("total_issues", StrV("3")),
                           Entry("raw_frontmatter", StrV("x"))>>
    /\ reparsed.metadata = <<Entry("total_issues", StrV("3"))>>
    /\ Delim \in {parsed.body[i] : i \in 1..Len(parsed.body)}
    /\ reparsed.body = parsed.body

\* C10: parse errors are never raised.  For a text whose delimiters are
\* present and whose YAML block does not load, parse_analysis returns, without
\* raising, the metadata agent unknown, parse_error, raw_frontmatter (the
\* block as written) and the body that followed the closing delimiter, or the
\* whole text when that body is empty.
C10_ParseErrorsNotRaised ==
    (pc \in {"parsed", "raised"} /\ rawText # NoneText /\ FirstBlock.matched
        /\ FirstLoad.kind \in {"YAMLError", "ValueError"}) =>
        /\ ~parsed.raised
        /\ Len(parsed.metadata) = 3
        /\ parsed.metadata[1] = Entry("agent", StrV("unknown"))
        /\ parsed.metadata[2].k = "parse_error"
        /\ parsed.metadata[3] =
               Entry("raw_frontmatter", RawFrontmatter(FirstBlock.yaml))
        /\ parsed.body = IF StripText(FirstBlock.body) # <<Blank>>
                         THEN StripText(FirstBlock.body)
                         ELSE StripText(rawText)

NoFrontmatterCase ==
    /\ pc \in {"parsed", "raised"}
    /\ rawText # NoneText
    /\ ~FirstBlock.matched

NoFrontmatterTag ==
    <<[k |-> "agent", v |-> StrV("unknown")],
      [k |-> "parse_warning", v |-> StrV("no_frontmatter")]>>

\* C11 as stated: for a text without the delimiter pair, parse_analysis
\* returns agent unknown, parse_warning no_frontmatter and the input text
\* verbatim as the body, and does not raise.
C11_FallbackVerbatim ==
    NoFrontmatterCase =>
        /\ ~parsed.raised
        /\ parsed.metadata = NoFrontmatterTag
        /\ parsed.body = rawText

\* lines i..j of the text, all lines outside them blank, none of the two
\* end lines blank
IsStrippedFrom(body, raw) ==
    \/ /\ \A i \in 1..Len(raw) : raw[i] = Blank
       /\ body = <<Blank>>
    \/ \E i \in 1..Len(raw), j \in 1..Len(raw) :
           /\ i <= j
           /\ body = SubSeq(raw, i, j)
           /\ raw[i] # Blank /\ raw[j] # Blank
           /\ \A k \in 1..Len(raw) : (k < i \/ k > j) => raw[k] = Blank

\* C11, amended: for a text without the delimiter pair, parse_analysis
\* returns agent unknown, parse_warning no_frontmatter and, as the body, the
\* input text without its leading and trailing whitespace, and does not raise.
C11_FallbackStripped ==
    NoFrontmatterCase =>
        /\ ~parsed.raised
        /\ parsed.metadata = NoFrontmatterTag
        /\ IsStrippedFrom(parsed.body, rawText)

\* a text without front matter that begins and ends with a blank line
C11_Witness ==
    /\ NoFrontmatterCase
    /\ pc = "parsed"
    /\ Head(rawText) = Blank
    /\ Last(rawText) = Blank
    /\ Len(parsed.body) >= 2
    /\ parsed.body # rawText

\* the first two delimiter lines of a text that starts with a delimiter line
OpeningLine == FirstNonBlank(rawText)

DelimitersAfter(p) == {q \in (p + 1)..Len(rawText) : rawText[q] = Delim}

ClosingLine == Min(DelimitersAfter(OpeningLine))

StartsWithBlockAndRule ==
    /\ pc = "parsed"
    /\ rawText # NoneText
    /\ OpeningLine > 0
    /\ rawText[OpeningLine] = Delim
    /\ Cardinality(DelimitersAfter(OpeningLine)) >= 2

\* C12: only the first front-matter block is consumed.  When a text starts
\* with a front-matter block and a --- line comes again later, the YAML block
\* is the text between the first two delimiter lines, and all that follows the
\* first closing delimiter, later --- lines included, is the body.
C12_FirstBlockOnly ==
    StartsWithBlockAndRule =>
        /\ FirstBlock.matched
        /\ StripText(FirstBlock.yaml)
               = StripText(SubSeq(rawText, OpeningLine + 1, ClosingLine - 1))
        /\ StripText(FirstBlock.body)
               = StripText(SubSeq(rawText, ClosingLine + 1, Len(rawText)))

(***************************************************************************)
(* Claims about the security after-tool callback, checked under SpecSec.   *)
(***************************************************************************)
Delivered == secReturn = "tool_response"

FinalList == toolResponse.vulnerabilities

NumberWithSeverity(sev) ==
    Cardinality({i \in 1..Len(FinalList) : FinalList[i].severity = sev})

C5_EvidenceComplete ==
    Delivered =>
        \A i \in 1..Len(FinalList) :
            /\ FinalList[i].file_path \notin {None, Absent, ""}
            /\ \/ FinalList[i].line \notin {NoNumber, 0}
               \/ FinalList[i].code_snippet \notin {None, Absent, ""}

FourFieldKey(v) ==
    <<Or(Get(v.type), ""), Or(Get(v.file_path), ""),
      IF TruthyNum(v.line) THEN v.line ELSE 0,
      First80(Or(Get(v.code_snippet), ""))>>

FiveFieldKey(v) ==
    <<IF v.rule_id \in {None, Absent} THEN "" ELSE v.rule_id>> \o FourFieldKey(v)

\* positions of the normalized list that hold the first finding of their key
FirstSeen == {i \in 1..Len(secTrace.normalized) :
                 \A k \in 1..(i - 1) :
                     FiveFieldKey(secTrace.normalized[k])
                         # FiveFieldKey(secTrace.normalized[i])}

NthFirstSeen(n) == CHOOSE i \in FirstSeen : Cardinality({k \in FirstSeen : k <= i}) = n

KeysOf(vulns) == {FiveFieldKey(vulns[i]) : i \in 1..Len(vulns)}

\* C6 as stated: of the normalized findings that agree on type, file path,
\* line and the first 80 characters of the code snippet, exactly one is
\* retained.
C6_DedupByFourFields ==
    Delivered =>
        \A i, j \in 1..Len(secTrace.deduped) :
            FourFieldKey(secTrace.deduped[i]) = FourFieldKey(secTrace.deduped[j])
                => i = j

\* C6, amended: of the normalized findings that agree on rule id, type, file
\* path, line and the first 80 characters of the code snippet, exactly one is
\* retained, the first seen; the retained findings keep their relative order;
\* false-positive filtering, enrichment and the summary work on the retained
\* findings only.
C6_DedupByFiveFields ==
    (Delivered /\ secTrace.normalized # <<>>) =>
        /\ Len(secTrace.deduped) = Cardinality(FirstSeen)
        /\ \A n \in 1..Len(secTrace.deduped) :
               secTrace.deduped[n] = secTrace.normalized[NthFirstSeen(n)]
        /\ KeysOf(secTrace.filtered) \subseteq KeysOf(secTrace.deduped)
        /\ Len(secTrace.filtered) <= Len(secTrace.deduped)
        /\ KeysOf(FinalList) \subseteq KeysOf(secTrace.deduped)
        /\ Cardinality(KeysOf(FinalList)) = Len(FinalList)
        /\ toolResponse.vulnerability_summary.total_vulnerabilities
               <= Len(secTrace.deduped)

\* three normalized findings: the first and the third agree on all five
\* fields and differ in severity and in the tail of the snippet, the second
\* differs from them in rule id only; the first two are retained, in order
C6_Witness ==
    /\ Delivered
    /\ Len(secTrace.normalized) = 3
    /\ Len(secTrace.deduped) = 2
    /\ FiveFieldKey(secTrace.normalized[1]) = FiveFieldKey(secTrace.normalized[3])
    /\ secTrace.normalized[1] # secTrace.normalized[3]
    /\ FourFieldKey(secTrace.normalized[1]) = FourFieldKey(secTrace.normalized[2])
    /\ secTrace.deduped = SubSeq(secTrace.normalized, 1, 2)
    /\ Len(FinalList) = 2

\* the callback ran its false-positive filter over a non-empty list
FalsePositivesFiltered == Delivered /\ secTrace.deduped # <<>>

\* a finding whose type, description and code excerpt can be read and that
\* matches a signature of the configuration
MatchesSignature(finding) ==
    /\ ~IsFalsePositiveRaises(finding)
    /\ IsFalsePositive(finding, secConfig.fp_config.patterns)

\* C18: filter_false_positives returns exactly the input findings that match
\* no false-positive signature, in their original order, with a removed count
\* equal to the number of findings dropped; a finding that matches a
\* signature is dropped whatever the other findings of the list contain.
C18_FalsePositivesDropped ==
    FalsePositivesFiltered =>
        /\ secTrace.filtered
               = SelectSeq(secTrace.deduped, LAMBDA f : ~MatchesSignature(f))
        /\ secTrace.false_positives
               = Len(secTrace.deduped) - Len(secTrace.filtered)

(***************************************************************************)
(* Claims about the content filters, checked under SpecFilter.             *)
(***************************************************************************)
HasMalformedRule == \E i \in 1..Len(filterRules) : filterRules[i].kind = "malformed"

WellFormedRules == SelectSeq(filterRules, LAMBDA r : r.kind # "malformed")

\* C7: filter idempotence.  For each rule set (bias, greenwashing, dogma) and
\* each text, filtering the filtered text again returns the same text and a
\* replacement count of 0.
C7_FilterIdempotent ==
    (filterPc = "twice" /\ ~HasMalformedRule) =>
        /\ secondPass.text = firstPass.text
        /\ secondPass.count = 0

\* C8: per-rule isolation.  When one rule of the set has a malformed pattern,
\* filter_content and filter_bias do not raise, and return the text and the
\* count that the other rules of the set give.
C8_PerRuleIsolation ==
    (/\ filterPc \in {"once", "twice"}
     /\ filterVia \in {"filter_content", "filter_bias"}
     /\ HasMalformedRule) =>
        /\ ~firstPass.raised
        /\ firstPass.text = ApplyFilter(filterVia, WellFormedRules, filterInput).text
        /\ firstPass.count = ApplyFilter(filterVia, WellFormedRules, filterInput).count

\* the rules a run applies: filter_bias adds the blocklist rules
RulesApplied ==
    IF filterVia = "filter_bias" THEN filterRules \o ProfanityRules ELSE filterRules

\* the text after each rule in turn has rewritten the output of the one before
RECURSIVE ChainedText(_, _)
ChainedText(rules, words) ==
    IF rules = <<>> THEN words
    ELSE ChainedText(Tail(rules), Subn(Head(rules), words).text)

\* the occurrences the rules rewrite on the way, summed over the rules
RECURSIVE OccurrencesRewritten(_, _)
OccurrencesRewritten(rules, words) ==
    IF rules = <<>> THEN 0
    ELSE Subn(Head(rules), words).count
             + OccurrencesRewritten(Tail(rules), Subn(Head(rules), words).text)

CountingFilterRan ==
    /\ filterPc \in {"once", "twice"}
    /\ filterVia \in {"filter_content", "filter_bias"}
    /\ ~HasMalformedRule

\* C16: the filter applies every rule of the set in list order, each on the
\* output of the rule before it, and the count it returns is the sum over the
\* rules of the occurrences each rule rewrote; this holds for the shared
\* bias and profanity rules (filter_bias) as for the per-producer sets
\* (filter_content).
C16_CountIsOccurrences ==
    CountingFilterRan =>
        /\ ~firstPass.raised
        /\ firstPass.text = ChainedText(RulesApplied, filterInput)
        /\ firstPass.count = OccurrencesRewritten(RulesApplied, filterInput)

(***************************************************************************)
(* Claims about schema validation, checked under SpecValid.                *)
(***************************************************************************)
\* a call with the default coerce_types
ValidatedByDefault == vPc = "validated" /\ vCoerce

\* C13: validate_analysis(metadata, body, expected_producer) leaves the
\* caller's metadata mapping as it was: the same keys, values and value
\* types, also when confidence or total_issues is a numeric-looking string
\* or out of range.
C13_ValidationDoesNotMutate ==
    ValidatedByDefault => vResult.metadata = vMetadata

ErrorsWith(msg) == SelectSeq(vResult.errors, LAMBDA e : e.msg = msg)

AgentRelatedErrors ==
    SelectSeq(vResult.errors,
              LAMBDA e : \/ e.msg = "Agent mismatch"
                         \/ e = Err("Missing required metadata field", "agent"))

SchemaChecked == ValidatedByDefault /\ ~HasKey(vMetadata, "parse_error")

\* C14: for metadata that went through the schema checks, an agent mismatch
\* error is reported exactly when the agent key is present, an expected
\* producer is supplied and the two differ; when the agent key is absent the
\* only agent-related error is the one missing-field error.
C14_MismatchOnlyWhenPresent ==
    SchemaChecked =>
        /\ ErrorsWith("Agent mismatch") # <<>>
              <=> /\ HasKey(vMetadata, "agent")
                  /\ vAgentName # None
                  /\ Lookup(vMetadata, "agent") # StrV(vAgentName)
        /\ ~HasKey(vMetadata, "agent")
              => AgentRelatedErrors
                     = <<Err("Missing required metadata field", "agent")>>

\* a number (a bool is the integer 0 or 1 to Python), or a string that
\* reads as a number
LooksNumeric(v) ==
    \/ v.ty \in {"int", "bool", "float"}
    \/ v.ty = "str" /\ StripScalar(v.s) \in FloatTexts

WithinUnitInterval(v) ==
    0 <= NumberOf(StripScalar(v.s)) /\ NumberOf(StripScalar(v.s)) <= 100

\* an integer, or a string that reads as an integer (digits, which zeros
\* may follow after a point), that is not negative
NonNegativeInteger(v) ==
    /\ \/ v.ty \in {"int", "bool"}
       \/ /\ v.ty = "str"
          /\ StripScalar(v.s) \in {"0", "1", "2", "3", "0.0", "1.0", "2.0", "3.0"}
    /\ NumberOf(StripScalar(v.s)) >= 0

ConfidenceErrorReported ==
    \/ ErrorsWith("Confidence must be numeric") # <<>>
    \/ ErrorsWith("Confidence outside valid range") # <<>>

IssuesErrorReported ==
    \/ ErrorsWith("total_issues must be integer") # <<>>
    \/ ErrorsWith("total_issues cannot be negative") # <<>>

\* C15: numeric-looking strings are coerced before the range checks (the
\* string 3 for total_issues becomes the integer 3); a confidence error is
\* reported if and only if the value is not numeric or lies outside
\* [0.0, 1.0], and a total_issues error if and only if the value is not a
\* non-negative integer.
C15_NumericChecksAfterCoercion ==
    SchemaChecked =>
        /\ HasKey(vMetadata, "confidence") =>
              LET v == Lookup(vMetadata, "confidence")
              IN  /\ ConfidenceErrorReported
                        <=> (~LooksNumeric(v) \/ ~WithinUnitInterval(v))
                  /\ (v.ty = "str" /\ LooksNumeric(v))
                        => Lookup(vResult.metadata, "confidence").ty = "float"
        /\ HasKey(vMetadata, "total_issues") =>
              LET v == Lookup(vMetadata, "total_issues")
              IN  /\ IssuesErrorReported <=> ~NonNegativeInteger(v)
                  /\ (v.ty = "str" /\ NonNegativeInteger(v))
                        => /\ Lookup(vResult.metadata, "total_issues").ty = "int"
                           /\ NumberOf(Lookup(vResult.metadata, "total_issues").s)
                                 = NumberOf(StripScalar(v.s))

\* the scenario of the string 3 with the string 1.5: the count is coerced and
\* passes, the confidence is coerced and is out of range
C15_Witness ==
    /\ SchemaChecked
    /\ HasKey(vMetadata, "total_issues")
    /\ HasKey(vMetadata, "confidence")
    /\ Lookup(vMetadata, "total_issues") = StrV("3")
    /\ Lookup(vMetadata, "confidence") = StrV("1.5")
    /\ Lookup(vResult.metadata, "total_issues") = IntV("3")
    /\ ErrorsWith("Confidence outside valid range") # <<>>
    /\ ~IssuesErrorReported

(***************************************************************************)
(* Claims about the after-agent guardrail callbacks, checked under         *)
(* SpecGuard.                                                              *)
(***************************************************************************)
\* the callback ran its filters over the body of the producer's document
GuardFiltered == gPc = "done" /\ gTrace.reached = "filtered"

\* the replacements the callback counted, over all its filters
GuardCount == gTrace.bias + gTrace.greenwashing + gTrace.invalid_cves

ProducerKey == StateKey(gProducer)

\* the producer's document now holds the body the filters produced
HoldsCorrectedDocument ==
    /\ gState[ProducerKey] # gBefore[ProducerKey]
    /\ ~ParseAnalysis(gState[ProducerKey]).raised
    /\ ParseAnalysis(gState[ProducerKey]).body = StripText(gTrace.filtered_body)

\* C17: after a producer's after-agent guardrail callback has run, the
\* producer's document in session state has been replaced by the corrected
\* document if the replacement count is greater than 0, and is the document
\* it was if the count is 0.
C17_RepersistIffRewritten ==
    GuardFiltered =>
        /\ GuardCount > 0 => HoldsCorrectedDocument
        /\ GuardCount = 0 => gState[ProducerKey] = gBefore[ProducerKey]

(***************************************************************************)
(* Claims about confidence and severity, checked under SpecEnrich.         *)
(***************************************************************************)
\* C19: for every finding, with any combination of present and absent file
\* path, line, code excerpt and evidence and any declared confidence,
\* compute_confidence returns a value in the closed interval [0.05, 0.98].
C19_ConfidenceClamped ==
    ePc \in {"computed", "adjusted"} =>
        /\ eComputed >= 5
        /\ eComputed <= 98

\* a declared confidence of 0.90 with a file path, a line and a code excerpt:
\* the sum lies above the interval and the result is its upper end
C19_Witness ==
    /\ ePc = "computed"
    /\ eFinding.confidence = 90
    /\ eFinding.file_path = "app.py"
    /\ eFinding.line = 42
    /\ eFinding.code_snippet = "x=1"
    /\ eComputed = 98

\* rank of a severity on the scale low < medium < high < critical
ScaleRank(sev) ==
    CASE sev = "low" -> 1
      [] sev = "medium" -> 2
      [] sev = "high" -> 3
      [] sev = "critical" -> 4

OnScale(sev) == sev \in {"low", "medium", "high", "critical"}

StepsBelow(sev, steps) ==
    CHOOSE t \in {"low", "medium", "high", "critical"} :
        ScaleRank(t) = IF ScaleRank(sev) - steps < 1 THEN 1
                       ELSE ScaleRank(sev) - steps

\* C20: for a severity of the scale low < medium < high < critical,
\* adjust_severity(severity, confidence) returns the severity two steps
\* lower, not below low, when confidence < 0.25; one step lower when
\* 0.25 <= confidence < 0.45 and the severity is high or critical; and the
\* severity as it is in every other case.  The result is never higher than
\* the input.
C20_SeverityAdjusted ==
    (ePc = "adjusted" /\ OnScale(eSeverity)) =>
        /\ eConfidence < 25 => eAdjusted = StepsBelow(eSeverity, 2)
        /\ (25 <= eConfidence /\ eConfidence < 45
                /\ eSeverity \in {"high", "critical"})
              => eAdjusted = StepsBelow(eSeverity, 1)
        /\ (eConfidence >= 45
                \/ (eConfidence >= 25 /\ eSeverity \notin {"high", "critical"}))
              => eAdjusted = eSeverity
        /\ OnScale(eAdjusted)
        /\ ScaleRank(eAdjusted) <= ScaleRank(eSeverity)

\* a critical severity with a confidence of 0.10 comes out two steps lower
C20_Witness ==
    /\ ePc = "adjusted"
    /\ eSeverity = "critical"
    /\ eConfidence = 10
    /\ eAdjusted = "medium"

(***************************************************************************)
(* Claims about the report synthesis, checked under SpecReport.            *)
(***************************************************************************)
\* the identifiers that occur in a document of the session state
Mentions(doc) == doc.listed \cup doc.mentioned

\* the after-agent callback has run over a markdown report
ReportValidated == rPc = "done" /\ rReport.kind = "markdown"

\* C21: the identifiers that reference validation flags as unsupported are
\* exactly the identifiers that occur in the final report and do not occur
\* in the security document of the session; an identifier that both mention
\* is never flagged.
C21_FlaggedIsSetDifference ==
    ReportValidated =>
        /\ rTrace.stage = "validated"
        /\ rTrace.hallucinated_cves = rReport.cves \ Mentions(rState["security_analysis"])

\* C23: whichever of the four producer documents are present, the final
\* report carries all seven required headings, and for each producer whose
\* document is absent a section that says no analysis is available for it.
C23_AllSectionsPresent ==
    ReportValidated =>
        /\ SectionTitles \subseteq rReport.sections
        /\ AbsentSections(rState) \subseteq rReport.placeholders

(***************************************************************************)
(* Claims about the CVE lookup and the write-back of the security          *)
(* after-agent callback, checked under SpecGuard.                          *)
(***************************************************************************)
\* the security callback has returned
SecurityCallbackRan == gPc = "done" /\ gProducer = "security_agent"

\* the lookup answered that the identifier does not exist: status 200 and
\* a totalResults of 0
DefiniteNegative == gLookup = "not_found"

\* C22: once the security after-agent callback has completed, it has
\* treated an identifier as invalid only if the lookup gave a definite
\* negative answer; on a timeout, an error, a non-success status or a
\* malformed response the identifier counts as valid.
C22_LookupFailsOpen ==
    (SecurityCallbackRan /\ ~DefiniteNegative) => gTrace.invalid_cves = 0

(***************************************************************************)
(* Claims about the review pipeline, checked under SpecPipeline.           *)
(***************************************************************************)
\* the sessions that have read or written a mutable object
SessionsOf(kind, key) == {a.session : a \in {b \in pAccess : b.kind = kind /\ b.key = key}}

\* C24: when two sessions with different ids run their pipelines in one
\* process, in any interleaving of their stages, no mutable object is read
\* or written by stages of both sessions.
C24_SessionIsolation ==
    \A a \in pAccess : Cardinality(SessionsOf(a.kind, a.key)) <= 1

\* the positions of a session's events at which a report file is written
ReportWrites(s) == {i \in DOMAIN pEvents[s] : pEvents[s][i].kind = "report"}

\* the producer documents the session's state holds before event i
ProducedBefore(s, i) ==
    {pEvents[s][j].key : j \in {k \in 1..(i - 1) : pEvents[s][k].kind = "state"}}

PersistedBefore(s, i) ==
    {pEvents[s][j].key : j \in {k \in 1..(i - 1) : pEvents[s][k].kind = "artifact"}}

\* C27: in every run of the pipeline the report is written only after the
\* producer documents that were produced have been persisted for the
\* session, and after the report has been written no further stage runs or
\* writes for the session.
C27_ReportCreatedLast ==
    \A s \in PipelineSessions : \A i \in ReportWrites(s) :
        /\ ProducedBefore(s, i) \ {"final_report"} \subseteq PersistedBefore(s, i)
        /\ \A j \in (i + 1)..Len(pEvents[s]) : pEvents[s][j].stage = pEvents[s][i].stage

(***************************************************************************)
(* Claims about what a save stores and overwrites, checked under           *)
(* SpecStore.                                                              *)
(***************************************************************************)
\* a save call has been made; its arguments are in lastSave
SaveMade == lastSave # NoResult

HasEnclosingFence(d) == StartsWith(Strip(d), Fence)

\* C25: the text that save_analysis_result writes to the session state and
\* to the artifact store is the input document with only an enclosing code
\* fence and the surrounding whitespace removed; a document without an
\* enclosing fence is stored character for character.
C25_OnlyFenceStripped ==
    SaveMade =>
        /\ state[lastSave.session][StateKey(lastSave.agent)] = StripFences(lastSave.doc)
        /\ lastSave.fault # "adk" =>
               adk[lastSave.session][SavedFile].text = StripFences(lastSave.doc)
        /\ ~HasEnclosingFence(lastSave.doc) =>
               state[lastSave.session][StateKey(lastSave.agent)] = lastSave.doc

\* what the three stores hold for a session and a producer
StoredAt(f, k) == IF k \in DOMAIN f THEN <<f[k]>> ELSE <<>>

Stored(s, p) ==
    [state |-> StoredAt(state[s], StateKey(p)),
     adk |-> IF ArtifactFilename(p) \in DOMAIN adk[s]
             THEN <<adk[s][ArtifactFilename(p)].text>> ELSE <<>>,
     disk |-> IF s \in DOMAIN disk THEN StoredAt(disk[s], ArtifactFilename(p)) ELSE <<>>]

\* the documents a session's directory holds for a producer
DiskDocuments(s, p) ==
    IF s \in DOMAIN disk THEN {f \in DOMAIN disk[s] : AgentNameOfFile(f) = p} ELSE {}

\* the last call was a save whose three writes were all made
SaveWritten == lastOp = "save" /\ lastSave.fault = "none"

LastWriteStored ==
    SaveWritten =>
        /\ Stored(lastSave.session, lastSave.agent)
               = [state |-> <<Persisted(lastSave.doc)>>,
                  adk |-> <<Persisted(lastSave.doc)>>,
                  disk |-> <<DiskText(Persisted(lastSave.doc))>>]
        /\ Cardinality(DiskDocuments(lastSave.session, lastSave.agent)) = 1

OtherPairsKept ==
    lastOp' = "save" =>
        \A s \in Sessions, p \in Agents :
            (s # lastSave'.session \/ p # lastSave'.agent) => Stored(s, p)' = Stored(s, p)

\* C26: after any sequence of saves, the stored document of a session and
\* producer is the text of the last save made for the pair, whatever was
\* stored before; the session's directory holds one document for the pair;
\* a save for another session or another producer does not change it.
C26_SaveOverwrites == [](LastWriteStored) /\ [][OtherPairsKept]_vars

\* a second save for a pair has replaced the artifact of the first
C26_Witness ==
    /\ SaveWritten
    /\ nSaves = 2
    /\ adk[lastSave.session][SavedFile].version = 1
    /\ lastSave.doc = <<"T">>
    /\ Stored(lastSave.session, lastSave.agent).disk = <<<<"T">>>>

(***************************************************************************)
(* Claims about the confidence formula, checked under SpecEnrich.          *)
(***************************************************************************)
\* number of characters of a text of the model, blanks at the ends left out
CharCount(text) ==
    CASE text = "" -> 0
      [] text = "x=1" -> 3
      [] text = "no security logging detected" -> 28
      [] text = LongA -> 90

\* a field of a finding that carries a non-empty text
HasText(x) == x # Absent /\ x # None /\ x # ""

\* the line of a finding is a line number (lines are counted from 1)
HasLine(n) == n # NoNumber /\ n >= 1

\* the text given as evidence: the evidence string, else the code excerpt
EvidenceText(f) ==
    IF HasText(f.evidence) THEN f.evidence
    ELSE IF HasText(f.code_snippet) THEN f.code_snippet
    ELSE ""

FormulaBase(f) == IF f.confidence # NoNumber THEN f.confidence ELSE 55

FormulaSum(f) ==
    FormulaBase(f)
    + (IF HasText(f.file_path) THEN 10 ELSE 0)
    + (IF HasLine(f.line) THEN 10 ELSE 0)
    + (IF HasText(f.code_snippet) \/ HasText(f.evidence) THEN 10 ELSE 0)
    - (IF CharCount(EvidenceText(f)) < 8 /\ ~HasText(f.code_snippet) THEN 10 ELSE 0)
    - (IF f.line = 1 /\ EvidenceText(f) = "no security logging detected" THEN 15 ELSE 0)

ClampTo(lo, hi, x) == IF x < lo THEN lo ELSE IF x > hi THEN hi ELSE x

\* C28: compute_confidence(finding) equals the clamp to [0.05, 0.98] of
\* base + 0.10 if a file path is present + 0.10 if a line number is present
\* + 0.10 if a code excerpt or an evidence string is present - 0.10 if the
\* evidence text is shorter than 8 characters and there is no code excerpt
\* - 0.15 if the line number is 1 and the evidence contains "no security
\* logging detected", where base is the declared confidence if it is a
\* number and 0.55 otherwise (values in hundredths).
C28_ConfidenceFormula ==
    ePc \in {"computed", "adjusted"} =>
        eComputed = ClampTo(5, 98, FormulaSum(eFinding))

\* no declared confidence, a file path, line 1 and the evidence "no security
\* logging detected": 0.55 + 0.10 + 0.10 + 0.10 - 0.15 = 0.70
C28_Witness ==
    /\ ePc = "computed"
    /\ eFinding.confidence = NoNumber
    /\ eFinding.file_path = "app.py"
    /\ eFinding.line = 1
    /\ eFinding.code_snippet = Absent
    /\ eFinding.evidence = "no security logging detected"
    /\ eComputed = 70

(***************************************************************************)
(* Claims about the parse tag and the write-back of the security           *)
(* callback, checked under SpecGuard.                                      *)
(***************************************************************************)
\* the parse of a document carries parse_error or parse_warning
ParsesTagged(parsed_doc) == ~parsed_doc.raised /\ ~Untagged(parsed_doc.metadata)

\* the parse of a document returns metadata without a tag
ParsesClean(parsed_doc) ==
    ~parsed_doc.raised /\ parsed_doc.metadata # <<>> /\ Untagged(parsed_doc.metadata)

\* C29: if the security document of the session state parses with
\* parse_error or parse_warning before security_agent_after_agent runs,
\* then what the callback leaves in the session state does not parse as an
\* untagged document.
C29_TagSurvivesWriteBack ==
    (SecurityCallbackRan /\ ParsesTagged(ParseAnalysis(gBefore["security_analysis"])))
        => ~ParsesClean(ParseAnalysis(gState["security_analysis"]))

(***************************************************************************)
(* Claims about the batch save, checked under SpecBatch.                   *)
(***************************************************************************)
\* the batch save has returned
BatchSaved == bPc = "done"

\* the producers whose document the call stored in the artifact store and
\* on disk
SavedDocuments == bArtifacts \cap bFiles

\* the saves of the call that returned status error
FailedSaves ==
    {i \in DOMAIN bReturn.details : bReturn.details[i].status = "error"}

\* C30: the saved_count that save_all_analysis_artifacts returns equals the
\* number of producer documents whose save succeeded, and the returned
\* status is success only if no attempted save failed.
C30_TruthfulBatchReport ==
    BatchSaved =>
        /\ bReturn.saved_count = Cardinality(SavedDocuments)
        /\ bReturn.status = "success" => FailedSaves = {}

====
